---- MODULE Spec2Model ----
(***************************************************************************)
(* The extra-output coordinator of galsim/config/extra.py.                 *)
(*                                                                         *)
(* The registry valid_extra_outputs, the entries of the config dict the    *)
(* coordinator reads and writes, and the work space of each builder are    *)
(* the state.  Every coordinator function is one action.  The rendering    *)
(* driver (the caller of the coordinator) is the environment: it starts a  *)
(* file, builds the images and stamps of the file in any order, and then   *)
(* asks for the extra HDUs and the extra files.                            *)
(***************************************************************************)
EXTENDS Integers, Sequences, FiniteSets, TLC

\* ------------------------------------------------------------------ bounds
MaxImages      == 3   \* images per file
MaxObjPerImage == 2   \* objects per image
MaxFiles       == 2   \* files built one after the other in one process
MaxHdu         == 3   \* largest configured hdu number
MaxFirst       == 2   \* largest value of the parameter first
MaxFails       == 2   \* failing attempts of one writeFile before it succeeds
MaxRetry       == 1   \* largest configured retry_io
MaxRegister    == 2   \* calls of RegisterExtraOutput after import
MaxWritePhases == 3   \* files of a run that writes one kind again and again
MaxAlloc       == 8   \* work space containers allocated in one process

\* ------------------------------------------------------------ value spaces
Kinds      == {"psf", "truth", "weight"}
Classes    == {"ExtraOutputBuilder", "HduBuilder"}
FileNames  == {"a.fits", "/b.fits"}
AbsNames   == {"/b.fits"}
KindDir    == "kdir"
OutputDir  == "odir"
NoRetry    == 0 - 1     \* 'retry_io' not in output
NoNproc    == 0         \* 'nproc' not in config['image']
NoneSlot   == {0 - 1}   \* the None that fills a new data list
Hooks      == {"initialize", "setupImage", "processStamp", "processImage",
               "finalize", "writeFile", "writeHdu"}

VARIABLES
    valid_extra_outputs, \* the registry: <<[key, builder]>> in iteration order
    config,              \* the entries of config the driver sets
    index_key,           \* config['index_key'] ("" while not set)
    extra_builder,       \* config['extra_builder']: [present, keys]
    extra_last_file,     \* config['extra_last_file']: [present, map]
    output_manager,      \* config['output_manager']: [present, starts]
    builders,            \* the builder object of each kind: its work space
    nalloc,              \* number of work space containers allocated so far
    files,               \* the paths that exist on disk
    phase,               \* where the driver is in the current file
    img,                 \* progress of each image of the current file
    stamps,              \* the object numbers whose stamp is complete
    did,                 \* which of the two write operations ran for the file
    nreg,                \* calls of RegisterExtraOutput so far
    calls,               \* per kind, the hook invocations in the current file
    trace,               \* hook invocations of the last operation, in order
    last,                \* the last operation: its name, arguments, outcome, result
    write_log,           \* one entry per WriteExtraOutputs call of the run
    raising,             \* the <<kind, hook>> pairs whose builder hook raises
    pool_cfg,            \* demo9: nfiles, len(mass_list) and ncpu of the run
    task_queue,          \* demo9: the entries of task_queue, oldest first
    done_queue,          \* demo9: the entries of done_queue, oldest first
    main,                \* demo9: where the main process is in its loops
    workers,             \* demo9: each worker process: its state and its task
    executed,            \* demo9: per task, the processes that ran build_file on it
    received             \* demo9: the info values main has taken off done_queue

vars == <<valid_extra_outputs, config, index_key, extra_builder,
          extra_last_file, output_manager, builders, nalloc, files, phase,
          img, stamps, did, nreg, calls, trace, last, write_log, raising,
          pool_cfg, task_queue, done_queue, main, workers, executed, received>>

\* the state of the worker pool of demo9
pool == <<pool_cfg, task_queue, done_queue, main, workers, executed, received>>

\* ----------------------------------------------------------------- helpers
Range(s) == {s[i] : i \in DOMAIN s}

RECURSIVE SumSeq(_, _)
SumSeq(s, n) == IF n = 0 THEN 0 ELSE s[n] + SumSeq(s, n - 1)

Bump(f, x) == IF x \in DOMAIN f THEN [f EXCEPT ![x] = @ + 1] ELSE f @@ (x :> 1)

Count(f, x) == IF x \in DOMAIN f THEN f[x] ELSE 0

EmptyMap == [x \in {} |-> 0]

\* the keys of the registry, in iteration order
RegKeys == [i \in DOMAIN valid_extra_outputs |-> valid_extra_outputs[i].key]

RegIndex(key) == CHOOSE i \in DOMAIN valid_extra_outputs :
                     valid_extra_outputs[i].key = key

\* valid_extra_outputs[key]
RegBuilder(key) == valid_extra_outputs[RegIndex(key)].builder

\* [ k for k in valid_extra_outputs.keys() if k in output ]
all_keys_unfiltered(output) == RegKeys

\* the registered keys of output, the last one first
all_keys_reversed(output) ==
    LET keys == SelectSeq(RegKeys, LAMBDA k : k \in DOMAIN output)
    IN [i \in DOMAIN keys |-> keys[Len(keys) + 1 - i]]

\* the registered keys of output and then its other keys
all_keys_of_output(output) ==
    LET others == DOMAIN output \ Range(RegKeys)
    IN SelectSeq(RegKeys, LAMBDA k : k \in DOMAIN output)
          \o (CHOOSE f \in [1 .. Cardinality(others) -> others] : Range(f) = others)

all_keys(output) == SelectSeq(RegKeys, LAMBDA k : k \in DOMAIN output)

\* the active kinds of the current config (none without an output block)
\* a coordinator that takes the output block for granted
output_in_config_always == TRUE

\* if 'output' in config
output_in_config == config.has_output

Active == IF config.has_output THEN Range(all_keys(config.output)) ELSE {}

\* one hook invocation, as recorded in trace
Call(key, hook, arg) == [key |-> key, hook |-> hook, arg |-> arg]

NoCalls == [initialize |-> 0, setupImage |-> 0, processStamp |-> EmptyMap,
            processImage |-> EmptyMap, finalize |-> 0, writeFile |-> 0,
            writeHdu |-> 0]

Unbound == [bound |-> FALSE, data |-> <<>>, scratch |-> EmptyMap,
            data_id |-> 0, scratch_id |-> 0, shared |-> FALSE]

\* ------------------------------------------------------ RegisterExtraOutput
\* valid_extra_outputs[key] = builder: a new key is added at the end, an
\* existing key keeps its place and gets the new builder
RegisterInto_first_wins(reg, key, builder) ==
    IF \E i \in DOMAIN reg : reg[i].key = key
    THEN reg
    ELSE Append(reg, [key |-> key, builder |-> builder])

RegisterInto(reg, key, builder) ==
    IF \E i \in DOMAIN reg : reg[i].key = key
    THEN [i \in DOMAIN reg |->
             IF reg[i].key = key THEN [key |-> key, builder |-> builder]
             ELSE reg[i]]
    ELSE Append(reg, [key |-> key, builder |-> builder])

\* Builders are registered while the modules are imported and before the
\* first file of a run is set up.
RegisterExtraOutput ==
    /\ UNCHANGED <<pool, raising>>
    /\ phase = "Unconfigured"
    /\ config.file_num = 0
    /\ nreg < MaxRegister
    /\ \E key \in Kinds, builder \in Classes :
          /\ valid_extra_outputs' = RegisterInto(valid_extra_outputs, key, builder)
          /\ builders' = [builders EXCEPT ![key] = Unbound]
          /\ last' = [op |-> "RegisterExtraOutput", err |-> "none",
                      ret |-> <<>>, first |-> 0, reg |-> <<key, builder>>]
    /\ nreg' = nreg + 1
    /\ trace' = <<>>
    /\ UNCHANGED <<config, index_key, extra_builder, extra_last_file,
                   output_manager, nalloc, files, phase, img, stamps, did,
                   calls, write_log>>

\* --------------------------------------------------------- SetupExtraOutput
\* 'current_nproc' not in config and 'image' in config and
\* 'nproc' in config['image'] and ParseValue(...) != 1
use_manager_any_count ==
    /\ ~config.current_nproc
    /\ config.nproc # NoNproc

use_manager ==
    /\ ~config.current_nproc
    /\ config.nproc # NoNproc
    /\ config.nproc # 1

\* a work space made once for the kind at position k and used again
NewWorkspace_once(k) ==
    [bound |-> TRUE,
     data |-> [i \in 1..config.nimages |-> NoneSlot],
     scratch |-> EmptyMap,
     data_id |-> 2 * k - 1,
     scratch_id |-> 2 * k,
     shared |-> use_manager]

\* one list and one dict made ahead of the loop and given to every kind
NewWorkspace_one_for_all(k) ==
    [bound |-> TRUE,
     data |-> [i \in 1..config.nimages |-> NoneSlot],
     scratch |-> EmptyMap,
     data_id |-> nalloc + 1,
     scratch_id |-> nalloc + 2,
     shared |-> use_manager]

\* a work space whose data list is left without its None entries
NewWorkspace_no_append(k) ==
    [bound |-> TRUE,
     data |-> <<>>,
     scratch |-> EmptyMap,
     data_id |-> nalloc + 2 * k - 1,
     scratch_id |-> nalloc + 2 * k,
     shared |-> use_manager]

\* data = list(); scratch = dict(); nimages times data.append(None);
\* builder.initialize(data, scratch, field, config, logger)
NewWorkspace(k) ==
    [bound |-> TRUE,
     data |-> [i \in 1..config.nimages |-> NoneSlot],
     scratch |-> EmptyMap,
     data_id |-> nalloc + 2 * k - 1,
     scratch_id |-> nalloc + 2 * k,
     shared |-> use_manager]

\* the position of key in the sequence keys (1-based)
Pos(keys, key) == CHOOSE i \in DOMAIN keys : keys[i] = key

\* a coordinator that goes on after a hook has raised
HookRaises_caught(key, hook) == FALSE

\* the hook of the builder of the kind raises when it is called
HookRaises(key, hook) == <<key, hook>> \in raising

\* a manager made and started by every call that uses one
StartManager_every_call == use_manager

\* if use_manager and 'output_manager' not in config
StartManager == use_manager /\ ~output_manager.present

\* the keys whose loop body is entered: those up to the first kind whose
\* hook raises
RECURSIVE Entered(_, _)
Entered(keys, hook) ==
    IF keys = <<>> THEN <<>>
    ELSE IF HookRaises(Head(keys), hook) THEN <<Head(keys)>>
    ELSE <<Head(keys)>> \o Entered(Tail(keys), hook)

\* the body of SetupExtraOutput(config, file_num, logger); the function does
\* not look at what an earlier call has set up for the builders
SetupCall(next_phase) ==
    /\ UNCHANGED <<pool, raising>>
    /\ IF output_in_config
       THEN LET all == all_keys(config.output)
                keys == Entered(all, "initialize")
                ks == {k \in Range(keys) : ~HookRaises(k, "initialize")}
                err == IF Len(keys) = Len(all) /\ ks = Range(all)
                       THEN "none" ELSE "HookError"
            IN /\ output_manager' =
                     IF StartManager
                     THEN [present |-> TRUE, starts |-> output_manager.starts + 1]
                     ELSE output_manager
               /\ extra_builder' =
                     [present |-> TRUE, keys |-> extra_builder.keys \cup ks]
               /\ builders' = [k \in Kinds |->
                     IF k \in ks THEN NewWorkspace(Pos(keys, k)) ELSE builders[k]]
               /\ nalloc' = nalloc + 2 * Len(keys)
               /\ calls' = [k \in Kinds |->
                     IF k \in Range(keys)
                     THEN [calls[k] EXCEPT !.initialize = @ + 1]
                     ELSE calls[k]]
               /\ trace' = [i \in DOMAIN keys |-> Call(keys[i], "initialize", 0)]
               /\ phase' = IF err = "none" THEN next_phase ELSE "Aborted"
               /\ last' = [op |-> "SetupExtraOutput", err |-> err, ret |-> <<>>,
                           first |-> 0, reg |-> <<>>]
       ELSE /\ trace' = <<>>
            /\ phase' = next_phase
            /\ last' = [op |-> "SetupExtraOutput", err |-> "none", ret |-> <<>>,
                        first |-> 0, reg |-> <<>>]
            /\ UNCHANGED <<output_manager, extra_builder, builders, nalloc, calls>>
    /\ UNCHANGED <<valid_extra_outputs, config, index_key, extra_last_file,
                   files, img, stamps, did, nreg, write_log>>

\* The driver sets up the extra outputs at the start of a file.
SetupExtraOutput ==
    /\ phase = "Unconfigured"
    /\ SetupCall("FileSetup")

\* A caller sets up the extra outputs of the same config again while the
\* file is being built.
SetupExtraOutputAgain ==
    /\ phase \in {"FileSetup", "ImagesInProgress", "Writing"}
    /\ config.has_output
    /\ nalloc < MaxAlloc
    /\ SetupCall(phase)

\* A caller sets up the extra outputs of another config, with the same
\* output block and number of images, while the file of config is being
\* built in this process: builder = valid_extra_outputs[key] is the one
\* builder object of the kind, and initialize binds the new work space to it.
SetupExtraOutputOther ==
    /\ UNCHANGED <<pool, raising>>
    /\ phase \in {"FileSetup", "ImagesInProgress", "Writing"}
    /\ config.has_output
    /\ nalloc < MaxAlloc
    /\ LET keys == all_keys(config.output)
           ks == Range(keys)
       IN /\ builders' = [k \in Kinds |->
                IF k \in ks THEN NewWorkspace(Pos(keys, k)) ELSE builders[k]]
          /\ nalloc' = nalloc + 2 * Len(keys)
          /\ trace' = [i \in DOMAIN keys |-> Call(keys[i], "initialize", 0)]
    /\ last' = [op |-> "SetupExtraOutput(other)", err |-> "none", ret |-> <<>>,
                first |-> 0, reg |-> <<>>]
    /\ UNCHANGED <<valid_extra_outputs, config, index_key, extra_builder,
                   extra_last_file, output_manager, files, phase, img, stamps,
                   did, nreg, calls, write_log>>

\* ------------------------------------------------ the hooks of a builder
\* The builders follow the work flow of the ExtraOutputBuilder docstring:
\* processStamp saves something in scratch[obj_num], processImage processes
\* the scratch entries of its obj_nums into data[index].
StampValue(obj_num) == obj_num

processStamp(b, obj_num) ==
    [b EXCEPT !.scratch = [o \in DOMAIN b.scratch \cup {obj_num} |->
                              IF o = obj_num THEN StampValue(obj_num)
                              ELSE b.scratch[o]]]

\* a processImage that takes every scratch entry there is
processImage_all_scratch(b, index, obj_nums) ==
    [b EXCEPT !.data[index + 1] = {b.scratch[o] : o \in DOMAIN b.scratch}]

processImage(b, index, obj_nums) ==
    [b EXCEPT !.data[index + 1] =
                  {b.scratch[o] : o \in obj_nums \cap DOMAIN b.scratch}]

\* the count of one hook invocation
Invoke(c, hook, arg) ==
    CASE hook = "initialize"   -> [c EXCEPT !.initialize = @ + 1]
      [] hook = "setupImage"   -> [c EXCEPT !.setupImage = @ + 1]
      [] hook = "processStamp" -> [c EXCEPT !.processStamp = Bump(@, arg)]
      [] hook = "processImage" -> [c EXCEPT !.processImage = Bump(@, arg)]
      [] hook = "finalize"     -> [c EXCEPT !.finalize = @ + 1]
      [] hook = "writeFile"    -> [c EXCEPT !.writeFile = @ + 1]
      [] hook = "writeHdu"     -> [c EXCEPT !.writeHdu = @ + 1]

\* for key in all_keys: builder = config['extra_builder'][key];
\*                       builder.<hook>(<arg>, field, config, logger)
\* with no try around the call: a hook that raises ends the loop
RECURSIVE HookLoop(_, _, _, _)
HookLoop(keys, hook, arg, st) ==
    IF keys = <<>> \/ st.err # "none" THEN st
    ELSE LET key == Head(keys)
         IN IF key \notin extra_builder.keys
            THEN [st EXCEPT !.err = "KeyError"]
            ELSE HookLoop(Tail(keys), hook, arg,
                     [st EXCEPT !.calls[key] = Invoke(@, hook, arg),
                                !.trace = Append(@, Call(key, hook, arg)),
                                !.err = IF HookRaises(key, hook)
                                        THEN "HookError" ELSE @])

Invoked(tr) == {tr[i].key : i \in DOMAIN tr}

\* the kinds whose hook was called and returned
Returned(tr, hook) == {k \in Invoked(tr) : ~HookRaises(k, hook)}

AfterOp(err) == IF err = "none" THEN phase ELSE "Aborted"

\* ---------------------------------------------- the images of the current file
Images == 0 .. config.nimages - 1

\* index = config['image_num'] - config['start_image_num']
ImageIndex_off(image_num) == image_num

ImageIndex_zero(image_num) == 0

ImageIndex(image_num) == image_num - config.start_image_num

\* start_obj_num = config['start_obj_num'];
\* for i in range(k): start_obj_num += nobj[i]
FirstObj(k) == config.start_obj_num + SumSeq(config.nobj, k)

\* a range that takes in its upper end
ObjNums_inclusive(k) == FirstObj(k) .. FirstObj(k) + config.nobj[k + 1]

\* range(start_obj_num, start_obj_num+nobj[k])
ObjNums(k) == FirstObj(k) .. FirstObj(k) + config.nobj[k + 1] - 1

\* ------------------------------------------------ SetupExtraOutputsForImage
\* builder.setupImage(field, config, logger): the hook of this operation
ImageSetupHook_initialize == "initialize"

ImageSetupHook == "setupImage"

\* The driver starts an image of the file that it has not started yet.
SetupExtraOutputsForImage ==
    /\ UNCHANGED <<pool, raising>>
    /\ phase \in {"FileSetup", "ImagesInProgress"}
    /\ \E i \in Images :
          /\ img[i] = "new"
          /\ img' = [img EXCEPT ![i] = "setup"]
    /\ LET keys == IF output_in_config THEN all_keys(config.output) ELSE <<>>
           st == HookLoop(keys, ImageSetupHook, 0,
                          [calls |-> calls, trace |-> <<>>, err |-> "none"])
       IN /\ calls' = st.calls
          /\ trace' = st.trace
          /\ last' = [op |-> "SetupExtraOutputsForImage", err |-> st.err,
                      ret |-> <<>>, first |-> 0, reg |-> <<>>]
          /\ phase' = IF st.err = "none" THEN "ImagesInProgress" ELSE "Aborted"
    /\ UNCHANGED <<valid_extra_outputs, config, index_key, extra_builder,
                   extra_last_file, output_manager, builders, nalloc, files,
                   stamps, did, nreg, write_log>>

\* ---------------------------------------------- ProcessExtraOutputsForStamp
\* obj_num = config['obj_num'], read with the driver at object cur
config_obj_num_start(cur) == config.start_obj_num

config_obj_num(cur) == cur

\* The driver completes a stamp of an image it has started:
\* config['obj_num'] is the number of that object.
ProcessExtraOutputsForStamp ==
    /\ UNCHANGED <<pool, raising>>
    /\ phase = "ImagesInProgress"
    /\ \E i \in Images :
          /\ img[i] = "setup"
          /\ \E cur \in ObjNums(i) \ stamps :
                /\ stamps' = stamps \cup {cur}
                /\ LET obj_num == config_obj_num(cur)
                       keys == IF output_in_config
                               THEN all_keys(config.output) ELSE <<>>
                       st == HookLoop(keys, "processStamp", obj_num,
                                 [calls |-> calls, trace |-> <<>>, err |-> "none"])
                   IN /\ calls' = st.calls
                      /\ trace' = st.trace
                      /\ builders' = [k \in Kinds |->
                            IF k \in Returned(st.trace, "processStamp")
                            THEN processStamp(builders[k], obj_num)
                            ELSE builders[k]]
                      /\ last' = [op |-> "ProcessExtraOutputsForStamp",
                                  err |-> st.err, ret |-> <<>>, first |-> 0, reg |-> <<>>]
                      /\ phase' = AfterOp(st.err)
    /\ UNCHANGED <<valid_extra_outputs, config, index_key, extra_builder,
                   extra_last_file, output_manager, nalloc, files, img, did,
                   nreg, write_log>>

\* ---------------------------------------------- ProcessExtraOutputsForImage
\* The driver completes an image all of whose stamps are complete:
\* config['image_num'] is the number of that image.
ProcessExtraOutputsForImage ==
    /\ UNCHANGED <<pool, raising>>
    /\ phase = "ImagesInProgress"
    /\ \E i \in Images :
          /\ img[i] = "setup"
          /\ ObjNums(i) \subseteq stamps
          /\ img' = [img EXCEPT ![i] = "done"]
          /\ LET image_num == config.start_image_num + i
                 keys == IF output_in_config
                         THEN all_keys(config.output) ELSE <<>>
                 k == image_num - config.start_image_num
                 obj_nums == ObjNums(k)
                 index == ImageIndex(image_num)
                 st == HookLoop(keys, "processImage", index,
                           [calls |-> calls, trace |-> <<>>, err |-> "none"])
             IN /\ calls' = st.calls
                /\ trace' = st.trace
                /\ builders' = [kk \in Kinds |->
                      IF kk \in Returned(st.trace, "processImage")
                      THEN processImage(builders[kk], index, obj_nums)
                      ELSE builders[kk]]
                /\ last' = [op |-> "ProcessExtraOutputsForImage",
                            err |-> st.err, ret |-> <<>>, first |-> 0, reg |-> <<>>]
                /\ phase' = IF st.err # "none" THEN "Aborted"
                            ELSE IF \A j \in Images \ {i} : img[j] = "done"
                                 THEN "Writing" ELSE phase
    /\ UNCHANGED <<valid_extra_outputs, config, index_key, extra_builder,
                   extra_last_file, output_manager, nalloc, files, stamps,
                   did, nreg, write_log>>

\* -------------------------------------------------------- WriteExtraOutputs
\* ntries = ParseValue(output,'retry_io')+1 if 'retry_io' in output else 1
NTries_no_first(retry_io) == IF retry_io = NoRetry THEN 1 ELSE retry_io

NTries(retry_io) == IF retry_io = NoRetry THEN 1 ELSE retry_io + 1

\* os.path.join(dir,file_name): an absolute file_name drops the directory
os_path_join(dir, file_name) ==
    IF file_name \in AbsNames THEN <<file_name>> ELSE <<dir, file_name>>

\* the directory of config['output'] ahead of the directory of the field
ResolvedPath_default_first(field, file_name) ==
    IF config.has_dir THEN os_path_join(OutputDir, file_name)
    ELSE IF field.has_dir THEN os_path_join(KindDir, file_name)
    ELSE <<file_name>>

\* dir = field's dir if 'dir' in field else default_dir;
\* file_name = os.path.join(dir,file_name) if dir is not None
ResolvedPath(field, file_name) ==
    IF field.has_dir THEN os_path_join(KindDir, file_name)
    ELSE IF config.has_dir THEN os_path_join(OutputDir, file_name)
    ELSE <<file_name>>

\* if noclobber and os.path.isfile(file_name): ... continue
NoClobberSkip_never(noclobber, path, fs) == FALSE

NoClobberSkip(noclobber, path, fs) == noclobber /\ path \in fs

\* config['extra_last_file'].get(key, None) == file_name
AlreadyWritten_never(last_file, key, path) == FALSE

AlreadyWritten_ever(last_file, key, path) ==
    \E i \in DOMAIN write_log :
        /\ key \in DOMAIN write_log[i].log
        /\ write_log[i].log[key].outcome = "written"
        /\ write_log[i].log[key].path = path

AlreadyWritten(last_file, key, path) ==
    key \in DOMAIN last_file /\ last_file[key] = path

\* galsim.config.RetryIO(write_func, args, ntries, file_name, logger):
\* write_func is tried until it succeeds, at most ntries times; the failure
\* of the last allowed try is raised.  fails is the number of tries that
\* fail before one would succeed.
RetryIO(ntries, fails) ==
    [tries |-> IF fails < ntries THEN fails + 1 ELSE ntries,
     ok |-> fails < ntries]

RECURSIVE Repeat(_, _)
Repeat(x, n) == IF n = 0 THEN <<>> ELSE <<x>> \o Repeat(x, n - 1)

RECURSIVE BumpBy(_, _, _)
BumpBy(c, hook, n) == IF n = 0 THEN c ELSE BumpBy(Invoke(c, hook, 0), hook, n - 1)

\* what a call did for one key: the resolved path, the outcome, the calls
\* of writeFile, and how many of its tries were going to fail
LogEntry(path, outcome, tries, fails) ==
    [path |-> path, outcome |-> outcome, tries |-> tries, fails |-> fails]

\* if 'file_name' in field: ... else: continue
WritesFile_any_target(field) == field.has_file_name \/ field.has_hdu

WritesFile(field) == field.has_file_name

\* if 'hdu' in field: ... else: continue
WritesHdu(field) == field.has_hdu

\* the hook calls of one written kind, with writeFile ahead of finalize
FileCalls_write_first(key, path, tries) ==
    Repeat(Call(key, "writeFile", path), tries) \o <<Call(key, "finalize", 0)>>

\* builder.finalize(field, config, logger), then RetryIO(builder.writeFile, ...)
FileCalls(key, path, tries) ==
    <<Call(key, "finalize", 0)>> \o Repeat(Call(key, "writeFile", path), tries)

\* a record of the path that is made before the write is known to succeed
RecordLastFile_always(last_file, key, path, ok) ==
    [k \in DOMAIN last_file \cup {key} |-> IF k = key THEN path ELSE last_file[k]]

\* config['extra_last_file'][key] = file_name, the statement after RetryIO:
\* it is not reached when RetryIO raises
RecordLastFile(last_file, key, path, ok) ==
    IF ok
    THEN [k \in DOMAIN last_file \cup {key} |-> IF k = key THEN path ELSE last_file[k]]
    ELSE last_file

\* the body of the loop "for key in [...]" of WriteExtraOutputs;
\* st = [calls, trace, err, last_file, files, log], in = [name, fails]
WriteOne(key, st, in) ==
    LET field == config.output[key]
        path == ResolvedPath(field, in.name[key])
        r == RetryIO(NTries(config.retry_io), in.fails[key])
    IN IF ~WritesFile(field)
       THEN [st EXCEPT !.log = @ @@ (key :> LogEntry(<<>>, "nofile", 0, 0))]
       ELSE IF NoClobberSkip(config.noclobber, path, st.files)
       THEN [st EXCEPT !.log = @ @@ (key :> LogEntry(path, "noclobber", 0, 0))]
       ELSE IF AlreadyWritten(st.last_file, key, path)
       THEN [st EXCEPT !.log = @ @@ (key :> LogEntry(path, "duplicate", 0, 0))]
       ELSE IF key \notin extra_builder.keys
       THEN [st EXCEPT !.err = "KeyError"]
       ELSE IF HookRaises(key, "finalize")
       THEN [st EXCEPT !.calls[key] = Invoke(@, "finalize", 0),
                       !.trace = Append(@, Call(key, "finalize", 0)),
                       !.err = "HookError",
                       !.log = @ @@ (key :> LogEntry(path, "raised", 0, 0))]
       ELSE [calls |-> [st.calls EXCEPT ![key] =
                           BumpBy(Invoke(@, "finalize", 0), "writeFile", r.tries)],
             trace |-> st.trace \o FileCalls(key, path, r.tries),
             err |-> IF r.ok THEN "none" ELSE "IOError",
             last_file |-> RecordLastFile(st.last_file, key, path, r.ok),
             files |-> IF r.ok THEN st.files \cup {path} ELSE st.files,
             log |-> st.log @@ (key :> LogEntry(path,
                                   IF r.ok THEN "written" ELSE "failed", r.tries,
                                   in.fails[key]))]

\* for key in [ k for k in valid_extra_outputs.keys() if k in output ]:
\* an exception of the body leaves the loop and the function
RECURSIVE WriteLoop_on(_, _, _)
WriteLoop_on(keys, st, in) ==
    IF keys = <<>> THEN st
    ELSE WriteLoop_on(Tail(keys), WriteOne(Head(keys), st, in), in)

RECURSIVE WriteLoop(_, _, _)
WriteLoop(keys, st, in) ==
    IF keys = <<>> \/ st.err # "none" THEN st
    ELSE WriteLoop(Tail(keys), WriteOne(Head(keys), st, in), in)

\* how many tries of one writeFile fail before one would succeed: any
\* number from none to all the tries the call allows
FailChoices ==
    0 .. IF MaxFails < NTries(config.retry_io) THEN MaxFails
         ELSE NTries(config.retry_io)

\* the active kinds that have a file_name
FileKeys == {k \in Active : WritesFile(config.output[k])}

\* The driver writes the extra files of a file whose images are all built.
\* The file names that ParseValue resolves and the tries that fail are
\* inputs of the call.
WriteExtraOutputs ==
    /\ UNCHANGED <<pool, raising>>
    /\ phase = "Writing"
    /\ ~did.write
    /\ index_key' = "file_num"
    /\ IF output_in_config
       THEN \E name \in [FileKeys -> FileNames], fails \in [FileKeys -> FailChoices] :
              LET st == WriteLoop(all_keys(config.output),
                           [calls |-> calls, trace |-> <<>>, err |-> "none",
                            last_file |-> extra_last_file.map, files |-> files,
                            log |-> EmptyMap],
                           [name |-> name, fails |-> fails])
              IN /\ calls' = st.calls
                 /\ trace' = st.trace
                 /\ extra_last_file' = [present |-> TRUE, map |-> st.last_file]
                 /\ files' = st.files
                 /\ write_log' = Append(write_log,
                                    [file |-> config.file_num, log |-> st.log])
                 /\ last' = [op |-> "WriteExtraOutputs", err |-> st.err,
                             ret |-> <<>>, first |-> 0, reg |-> <<>>]
                 /\ phase' = IF st.err # "none" THEN "Aborted"
                             ELSE IF did.hdus THEN "Done" ELSE phase
       ELSE /\ trace' = <<>>
            /\ last' = [op |-> "WriteExtraOutputs", err |-> "none",
                        ret |-> <<>>, first |-> 0, reg |-> <<>>]
            /\ phase' = IF did.hdus THEN "Done" ELSE phase
            /\ UNCHANGED <<calls, extra_last_file, files, write_log>>
    /\ did' = [did EXCEPT !.write = TRUE]
    /\ UNCHANGED <<valid_extra_outputs, config, extra_builder, output_manager,
                   builders, nalloc, img, stamps, nreg>>

\* ----------------------------------------------------- BuildExtraOutputHDUs
\* what a builder's writeHdu returns
Artifact(key) == [kind |-> key]

\* if hdu <= 0 or hdu in hdus.keys(): raise ...
HduInvalid_nodup(hdu, hdus) == hdu <= 0

HduInvalid(hdu, hdus) == hdu <= 0 \/ hdu \in DOMAIN hdus

\* range(first,len(hdus)+first)
HduRange_keys(hdus, first) ==
    [i \in 1 .. Cardinality(DOMAIN hdus) |->
        CHOOSE h \in DOMAIN hdus :
            Cardinality({g \in DOMAIN hdus : g < h}) = i - 1]

HduRange(hdus, first) ==
    [i \in 1 .. Cardinality(DOMAIN hdus) |-> first + i - 1]

\* for h in range(first,len(hdus)+first): if h not in hdus.keys(): raise ...
HduSkipped(hdus, first) ==
    \E i \in DOMAIN HduRange(hdus, first) :
        HduRange(hdus, first)[i] \notin DOMAIN hdus

\* hdulist = [ hdus[k] for k in range(first,len(hdus)+first) ]
HduList(hdus, first) ==
    [i \in DOMAIN HduRange(hdus, first) |-> hdus[HduRange(hdus, first)[i]]]

\* ExtraOutputBuilder.writeHdu: raise NotImplemented(...); a builder class
\* that overrides it returns its hdu
WriteHduRaises_never(builder) == FALSE

WriteHduRaises(builder) == builder = "ExtraOutputBuilder"

\* the body of the loop "for key in [...]" of BuildExtraOutputHDUs;
\* st = [calls, trace, err, hdus].  The message of line 259 has two
\* conversions and one argument, so building it raises TypeError; the base
\* class writeHdu calls NotImplemented, which is not callable: TypeError.
HduOne(key, st) ==
    LET field == config.output[key]
        hdu == field.hdu
    IN IF ~WritesHdu(field) THEN st
       ELSE IF HduInvalid(hdu, st.hdus)
       THEN [st EXCEPT !.err = "TypeError"]
       ELSE IF key \notin extra_builder.keys
       THEN [st EXCEPT !.err = "KeyError"]
       ELSE IF HookRaises(key, "finalize")
       THEN [st EXCEPT !.calls[key] = Invoke(@, "finalize", 0),
                       !.trace = Append(@, Call(key, "finalize", 0)),
                       !.err = "HookError"]
       ELSE [calls |-> [st.calls EXCEPT ![key] =
                           Invoke(Invoke(@, "finalize", 0), "writeHdu", 0)],
             trace |-> st.trace \o <<Call(key, "finalize", 0),
                                     Call(key, "writeHdu", hdu)>>,
             err |-> IF WriteHduRaises(RegBuilder(key))
                     THEN "TypeError" ELSE "none",
             hdus |-> IF WriteHduRaises(RegBuilder(key)) THEN st.hdus
                      ELSE st.hdus @@ (hdu :> Artifact(key))]

RECURSIVE HduLoop(_, _)
HduLoop(keys, st) ==
    IF keys = <<>> \/ st.err # "none" THEN st
    ELSE HduLoop(Tail(keys), HduOne(Head(keys), st))

\* The driver asks for the extra HDUs of a file whose images are all built.
BuildExtraOutputHDUs ==
    /\ UNCHANGED <<pool, raising>>
    /\ phase = "Writing"
    /\ ~did.hdus
    /\ index_key' = "file_num"
    /\ \E first \in 0 .. MaxFirst :
          IF output_in_config
          THEN LET st == HduLoop(all_keys(config.output),
                            [calls |-> calls, trace |-> <<>>, err |-> "none",
                             hdus |-> EmptyMap])
                   err == IF st.err # "none" THEN st.err
                          ELSE IF HduSkipped(st.hdus, first) THEN "ValueError"
                          ELSE "none"
               IN /\ calls' = st.calls
                  /\ trace' = st.trace
                  /\ last' = [op |-> "BuildExtraOutputHDUs", err |-> err,
                              ret |-> IF err = "none" THEN HduList(st.hdus, first)
                                      ELSE <<>>,
                              first |-> first, reg |-> <<>>]
                  /\ phase' = IF err # "none" THEN "Aborted"
                              ELSE IF did.write THEN "Done" ELSE phase
          ELSE /\ trace' = <<>>
               /\ last' = [op |-> "BuildExtraOutputHDUs", err |-> "none",
                           ret |-> <<>>, first |-> first, reg |-> <<>>]
               /\ phase' = IF did.write THEN "Done" ELSE phase
               /\ UNCHANGED calls
    /\ did' = [did EXCEPT !.hdus = TRUE]
    /\ UNCHANGED <<valid_extra_outputs, config, extra_builder, extra_last_file,
                   output_manager, builders, nalloc, files, img, stamps, nreg,
                   write_log>>

\* ------------------------------------------------------------- the next file
\* The driver goes on to the next file of the run with the same config:
\* the file, image and object numbers advance.
NextFile ==
    /\ UNCHANGED <<pool, raising>>
    /\ phase \in {"Done", "Aborted"}
    /\ config.file_num + 1 < config.nfiles
    /\ config' = [config EXCEPT
                     !.file_num = @ + 1,
                     !.start_image_num = @ + config.nimages,
                     !.start_obj_num = @ + SumSeq(config.nobj, config.nimages)]
    /\ phase' = "Unconfigured"
    /\ img' = [i \in Images |-> "new"]
    /\ stamps' = {}
    /\ did' = [write |-> FALSE, hdus |-> FALSE]
    /\ calls' = [k \in Kinds |-> NoCalls]
    /\ trace' = <<>>
    /\ last' = [op |-> "NextFile", err |-> "none", ret |-> <<>>, first |-> 0, reg |-> <<>>]
    /\ UNCHANGED <<valid_extra_outputs, index_key, extra_builder,
                   extra_last_file, output_manager, builders, nalloc, files,
                   nreg, write_log>>

\* ------------------------------------------------ demo9: the worker pool
\* The script of demo9 builds nfiles files for each mass of mass_list in
\* worker processes that take their tasks from task_queue and put their
\* results on done_queue.
MaxTasks     == 4     \* ntot is at most this
MaxCpu       == 2     \* cpu_count() is at most this

random_seed  == 8383721
nobj         == 20
NoCpuCount   == 0     \* cpu_count() raises

\* the variables of the extra output coordinator
coordinator == <<valid_extra_outputs, config, index_key, extra_builder,
                 extra_last_file, output_manager, builders, nalloc, files,
                 phase, img, stamps, did, nreg, calls, trace, last, write_log,
                 raising>>

\* ntot = nfiles * len(mass_list)
ntot == pool_cfg.nfiles * pool_cfg.nmass

\* nproc = nfiles if ncpu > nfiles else ncpu; nproc = 2 in the except branch
nproc_of(cfg) ==
    IF cfg.ncpu = NoCpuCount THEN 2
    ELSE IF cfg.ncpu > cfg.nfiles THEN cfg.nfiles ELSE cfg.ncpu

\* full_name = os.path.join('output', "nfw%d"%(i+1), "cluster%04d.fits"%(j+1))
full_name(i, j) == <<"output", i + 1, j + 1>>

\* the file names of the run
FullNames == {full_name(i, j) : i \in 0 .. pool_cfg.nmass - 1,
                                j \in 0 .. pool_cfg.nfiles - 1}

\* ( (seed, full_name, mass), full_name ): mass_list[i] is written i+1
TaskEntry(seed, i, j) ==
    [stop |-> FALSE,
     args |-> [seed |-> seed, file_name |-> full_name(i, j), mass |-> i + 1],
     info |-> full_name(i, j)]

\* the sentinel 'STOP'
STOP ==
    [stop |-> TRUE,
     args |-> [seed |-> 0, file_name |-> <<>>, mass |-> 0],
     info |-> <<>>]

\* result = build_file(seed, file_name, mass): the time it took to build
\* and write the file of these arguments, and the seeds the call used:
\* UniformDeviate(seed+k) for k in range(nobj), and CCDNoise(seed+nobj)
build_file(args) ==
    [time_for |-> args.file_name, seed |-> args.seed,
     seeds |-> {args.seed + k : k \in 0 .. nobj - 1} \cup {args.seed + nobj}]

\* a step that leaves out the seed of the noise
SeedStep_nobj == nobj

\* seed += nobj+1
SeedStep == nobj + 1

\* task_queue.put( ( (seed, full_name, mass), full_name ) ) in the loops
\* over i and j, followed by seed += nobj+1
task_queue_put ==
    /\ main.pc = "queue"
    /\ task_queue' = Append(task_queue, TaskEntry(main.seed, main.i, main.j))
    /\ main' = LET last_j == main.j + 1 = pool_cfg.nfiles
                   last_i == main.i + 1 = pool_cfg.nmass
               IN [main EXCEPT !.seed = @ + SeedStep,
                               !.j = IF last_j THEN 0 ELSE @ + 1,
                               !.i = IF last_j THEN @ + 1 ELSE @,
                               !.pc = IF last_j /\ last_i THEN "start" ELSE "queue"]
    /\ UNCHANGED <<pool_cfg, done_queue, workers, executed, received>>
    /\ UNCHANGED coordinator

\* Process(target=worker, args=(task_queue, done_queue)).start() for k in
\* range(nproc)
Process_start ==
    /\ main.pc = "start"
    /\ workers' = [workers EXCEPT ![main.k + 1].state = "get"]
    /\ main' = [main EXCEPT !.k = @ + 1,
                            !.pc = IF main.k + 1 = nproc_of(pool_cfg)
                                   THEN "get" ELSE "start"]
    /\ UNCHANGED <<pool_cfg, task_queue, done_queue, executed, received>>
    /\ UNCHANGED coordinator

Dequeue_keep(queue) == queue

\* input.get() takes the oldest entry off the queue
Dequeue(queue) == Tail(queue)

\* for (args, info) in iter(input.get, 'STOP'): the worker blocks until the
\* queue has an entry, takes it, and leaves the loop on 'STOP'
worker_get(w) ==
    /\ workers[w].state = "get"
    /\ task_queue # <<>>
    /\ LET entry == Head(task_queue)
       IN workers' = [workers EXCEPT ![w] =
             IF entry.stop
             THEN [state |-> "exited", task |-> entry, stops |-> @.stops + 1]
             ELSE [state |-> "build", task |-> entry, stops |-> @.stops]]
    /\ task_queue' = Dequeue(task_queue)
    /\ UNCHANGED <<pool_cfg, done_queue, main, executed, received>>
    /\ UNCHANGED coordinator

\* result = build_file(*args)
\* output.put( (result, info, current_process().name) )
worker_build(w) ==
    /\ workers[w].state = "build"
    /\ LET task == workers[w].task
       IN /\ executed' = [executed EXCEPT ![task.args.file_name] = Append(@, w)]
          /\ done_queue' = Append(done_queue,
                [result |-> build_file(task.args), info |-> task.info, proc |-> w])
    /\ workers' = [workers EXCEPT ![w].state = "get"]
    /\ UNCHANGED <<pool_cfg, task_queue, main, received>>
    /\ UNCHANGED coordinator

\* result = build_file(*args) raises: the exception leaves worker(), the
\* process ends, and no entry is put on done_queue; one call of a run fails
build_file_raises(w) ==
    /\ workers[w].state = "build"
    /\ \A v \in DOMAIN workers : workers[v].state # "died"
    /\ executed' = [executed EXCEPT ![workers[w].task.args.file_name] = Append(@, w)]
    /\ workers' = [workers EXCEPT ![w].state = "died"]
    /\ UNCHANGED <<pool_cfg, task_queue, done_queue, main, received>>
    /\ UNCHANGED coordinator

\* a loop that the main process leaves on its first result
LoopOver_first(got) == got >= 1

\* for i in range(ntot): the loop is over after ntot passes
LoopOver(got) == got = ntot

\* result, info, proc = done_queue.get() for i in range(ntot): the main
\* process blocks until the queue has an entry
done_queue_get ==
    /\ main.pc = "get"
    /\ done_queue # <<>>
    /\ received' = [received EXCEPT ![Head(done_queue).info] = @ + 1]
    /\ done_queue' = Tail(done_queue)
    /\ main' = [main EXCEPT !.got = @ + 1,
                            !.pc = IF LoopOver(main.got + 1) THEN "stop" ELSE "get"]
    /\ UNCHANGED <<pool_cfg, task_queue, workers, executed>>
    /\ UNCHANGED coordinator

StopCount_short == nproc_of(pool_cfg) - 1

\* the number of 'STOP' entries the main process puts: range(nproc)
StopCount == nproc_of(pool_cfg)

\* task_queue.put('STOP') for k in range(nproc)
put_STOP ==
    /\ main.pc = "stop"
    /\ task_queue' = Append(task_queue, STOP)
    /\ main' = [main EXCEPT !.stops = @ + 1,
                            !.pc = IF main.stops + 1 >= StopCount
                                   THEN "done" ELSE "stop"]
    /\ UNCHANGED <<pool_cfg, done_queue, workers, executed, received>>
    /\ UNCHANGED coordinator

\* the main process of demo9 and its worker processes
Main == task_queue_put \/ Process_start \/ done_queue_get \/ put_STOP
Worker(w) == worker_get(w) \/ worker_build(w)

\* the script of demo9 is not running
NoPool ==
    /\ pool_cfg = [nfiles |-> 0, nmass |-> 0, ncpu |-> NoCpuCount]
    /\ task_queue = <<>>
    /\ done_queue = <<>>
    /\ main = [pc |-> "off", i |-> 0, j |-> 0, seed |-> 0, k |-> 0,
               got |-> 0, stops |-> 0]
    /\ workers = <<>>
    /\ executed = <<>>
    /\ received = <<>>

\* the script of demo9 after ntot and nproc are computed and the empty
\* task_queue is made
PoolStart(cfg) ==
    /\ pool_cfg = cfg
    /\ task_queue = <<>>
    /\ done_queue = <<>>
    /\ main = [pc |-> "queue", i |-> 0, j |-> 0, seed |-> random_seed, k |-> 0,
               got |-> 0, stops |-> 0]
    /\ workers = [w \in 1 .. nproc_of(cfg) |->
                     [state |-> "new", task |-> STOP, stops |-> 0]]
    /\ executed = [f \in {full_name(i, j) : i \in 0 .. cfg.nmass - 1,
                                            j \in 0 .. cfg.nfiles - 1} |-> <<>>]
    /\ received = [f \in {full_name(i, j) : i \in 0 .. cfg.nmass - 1,
                                            j \in 0 .. cfg.nfiles - 1} |-> 0]

\* ------------------------------------------------------- the initial states
\* a field config['output'][key]: which of file_name, hdu and dir it has
Field(has_file_name, has_hdu, hdu, has_dir) ==
    [has_file_name |-> has_file_name, has_hdu |-> has_hdu, hdu |-> hdu,
     has_dir |-> has_dir]

FileField    == Field(TRUE, FALSE, 0, FALSE)
DirFileField == Field(TRUE, FALSE, 0, TRUE)
HduField(h)  == Field(FALSE, TRUE, h, FALSE)
BothField(h) == Field(TRUE, TRUE, h, FALSE)
NoField      == Field(FALSE, FALSE, 0, FALSE)

\* the registry after the import of the builder modules
Registry(keys, builder) == [i \in DOMAIN keys |-> [key |-> keys[i], builder |-> builder[i]]]

\* the image and object layouts of a file: n images, m objects in the
\* first image and one object in each of the others
Layouts ==
    {[nimages |-> n, nobj |-> [i \in 1..n |-> IF i = 1 THEN m ELSE 1],
      nfiles |-> MaxFiles] :
        n \in 1..MaxImages, m \in 1..MaxObjPerImage}

OneImage == [nimages |-> 1, nobj |-> <<1>>, nfiles |-> MaxFiles]

\* a longer run of files of one image
ManyFiles == [nimages |-> 1, nobj |-> <<1>>, nfiles |-> MaxWritePhases]

Config(has_output, output, layout, start, retry_io, has_dir, noclobber, current_nproc, nproc) ==
    [has_output |-> has_output, output |-> output,
     nimages |-> layout.nimages, nobj |-> layout.nobj, nfiles |-> layout.nfiles,
     file_num |-> 0, start_image_num |-> start, start_obj_num |-> 2 * start,
     retry_io |-> retry_io, has_dir |-> has_dir, noclobber |-> noclobber,
     current_nproc |-> current_nproc, nproc |-> nproc]

\* a.fits in every directory
OldFiles == {<<"a.fits">>, <<KindDir, "a.fits">>, <<OutputDir, "a.fits">>}

\* the coordinator before the first file of a run
InitCoordinator(reg, cfg, disk) ==
    /\ valid_extra_outputs = reg
    /\ config = cfg
    /\ index_key = ""
    /\ extra_builder = [present |-> FALSE, keys |-> {}]
    /\ extra_last_file = [present |-> FALSE, map |-> [k \in {} |-> <<>>]]
    /\ output_manager = [present |-> FALSE, starts |-> 0]
    /\ builders = [k \in Kinds |-> Unbound]
    /\ nalloc = 0
    /\ files = disk
    /\ phase = "Unconfigured"
    /\ img = [i \in 0 .. cfg.nimages - 1 |-> "new"]
    /\ stamps = {}
    /\ did = [write |-> FALSE, hdus |-> FALSE]
    /\ nreg = 0
    /\ calls = [k \in Kinds |-> NoCalls]
    /\ trace = <<>>
    /\ last = [op |-> "import", err |-> "none", ret |-> <<>>, first |-> 0, reg |-> <<>>]
    /\ write_log = <<>>

InitWith(reg, cfg, disk) ==
    /\ NoPool
    /\ raising = {}
    /\ InitCoordinator(reg, cfg, disk)

\* The kinds write to a file, to an hdu, to both or to neither; truth is
\* configured but not always registered, and the reverse.
MixedOutputs ==
    {("psf" :> FileField) @@ ("weight" :> HduField(1)),
     ("psf" :> BothField(1)) @@ ("truth" :> NoField),
     ("weight" :> NoField) @@ ("truth" :> HduField(1))}

\* Files of one image, with and without an output block, in the main
\* process and in a worker process, with and without a number of processes
\* for the images; builders are registered before the first file.
Init ==
    \E has_output \in BOOLEAN, output \in MixedOutputs,
       nproc \in {NoNproc, 1, 2}, current_nproc \in BOOLEAN :
       /\ (~has_output => output = ("psf" :> FileField) @@ ("weight" :> HduField(1)))
       /\ InitWith(Registry(<<"psf", "weight">>, <<"HduBuilder", "HduBuilder">>),
                   Config(has_output, output, OneImage, 0, NoRetry, FALSE,
                          FALSE, current_nproc, nproc),
                   {})

\* Files of several images and objects, numbered from 1 and 2.
InitLife ==
    \E has_output \in BOOLEAN, output \in MixedOutputs, layout \in Layouts :
       /\ (~has_output => output = ("psf" :> FileField) @@ ("weight" :> HduField(1)))
       /\ InitWith(Registry(<<"weight", "psf", "truth">>,
                            <<"HduBuilder", "HduBuilder", "ExtraOutputBuilder">>),
                   Config(has_output, output, layout, 1, NoRetry, FALSE,
                          FALSE, FALSE, NoNproc),
                   {})

\* Files of one image: every assignment of hdu numbers to the kinds.
HduChoices == {NoField} \cup {HduField(h) : h \in 0..MaxHdu}

InitHdu ==
    \E output \in [Kinds -> HduChoices], reg \in
          {Registry(<<"psf", "weight", "truth">>, <<"HduBuilder", "HduBuilder", "HduBuilder">>),
           Registry(<<"truth", "psf", "weight">>, <<"HduBuilder", "ExtraOutputBuilder", "HduBuilder">>)} :
       InitWith(reg,
                Config(TRUE, output, OneImage, 0, NoRetry, FALSE, FALSE, FALSE, NoNproc),
                {})

\* Files of one image: the kinds write files, with and without directories,
\* retries and noclobber; with noclobber there may be old files on disk
\* and retry_io is not configured.
\* (the second element says whether config['output'] has a dir)
WriteOutputs ==
    {<<("psf" :> FileField), FALSE>>,
     <<("psf" :> FileField), TRUE>>,
     <<("psf" :> DirFileField) @@ ("weight" :> FileField), TRUE>>,
     <<("psf" :> FileField) @@ ("weight" :> BothField(1)), FALSE>>}

InitWrite ==
    \E output \in WriteOutputs, retry_io \in {NoRetry} \cup 0..MaxRetry,
       noclobber \in BOOLEAN, disk \in {{}, OldFiles} :
       /\ (~noclobber => disk = {})
       /\ (noclobber => retry_io = NoRetry)
       /\ InitWith(Registry(<<"weight", "psf">>, <<"HduBuilder", "HduBuilder">>),
                   Config(TRUE, output[1], OneImage, 0, retry_io, output[2],
                          noclobber, FALSE, NoNproc),
                   disk)

\* A longer run of files of one image in which psf writes a file for every
\* file of the run, with and without noclobber.
InitDup ==
    \E has_dir \in BOOLEAN, noclobber \in BOOLEAN :
       InitWith(Registry(<<"psf", "weight">>, <<"HduBuilder", "HduBuilder">>),
                Config(TRUE, ("psf" :> FileField), ManyFiles, 0, NoRetry, has_dir,
                       noclobber, FALSE, NoNproc),
                {})

\* Files of one image of one or more objects in which psf writes a file and
\* weight an hdu.
InitSetup ==
    \E layout \in {l \in Layouts : l.nimages = 1} :
       InitWith(Registry(<<"weight", "psf">>, <<"HduBuilder", "HduBuilder">>),
                Config(TRUE, ("psf" :> FileField) @@ ("weight" :> HduField(1)),
                       layout, 0, NoRetry, FALSE, FALSE, FALSE, NoNproc),
                {})

\* Files of one image in which the three kinds write a file and an hdu
\* each, with the registry in two orders.
InitOrder ==
    \E reg \in
          {Registry(<<"psf", "weight", "truth">>, <<"HduBuilder", "HduBuilder", "HduBuilder">>),
           Registry(<<"truth", "psf", "weight">>, <<"HduBuilder", "HduBuilder", "HduBuilder">>)} :
       InitWith(reg,
                Config(TRUE,
                       ("psf" :> BothField(2)) @@ ("weight" :> BothField(1))
                          @@ ("truth" :> BothField(3)),
                       OneImage, 0, NoRetry, FALSE, FALSE, FALSE, NoNproc),
                {})

\* the hooks of a builder that the coordinator calls for every active kind
RaisingHooks == {"initialize", "setupImage", "processStamp", "processImage",
                 "finalize"}

\* Files of one image of three kinds that write a file and an hdu each; no
\* hook raises, or one hook of the builder of one kind raises whenever it is
\* called.
InitRaise ==
    \E layout \in {l \in Layouts : l.nimages = 1},
       r \in {{}} \cup {{<<k, h>>} : k \in Kinds, h \in RaisingHooks} :
       /\ NoPool
       /\ raising = r
       /\ InitCoordinator(Registry(<<"psf", "weight", "truth">>,
                                   <<"HduBuilder", "HduBuilder", "HduBuilder">>),
                          Config(TRUE,
                                 ("psf" :> BothField(2)) @@ ("weight" :> BothField(1))
                                    @@ ("truth" :> BothField(3)),
                                 layout, 0, NoRetry, FALSE, FALSE, FALSE, NoNproc),
                          {})

\* the operations of a run, after the builders are registered
Run ==
    \/ SetupExtraOutput
    \/ SetupExtraOutputsForImage
    \/ ProcessExtraOutputsForStamp
    \/ ProcessExtraOutputsForImage
    \/ WriteExtraOutputs
    \/ BuildExtraOutputHDUs
    \/ NextFile

Next ==
    \/ RegisterExtraOutput
    \/ SetupExtraOutput
    \/ SetupExtraOutputsForImage
    \/ ProcessExtraOutputsForStamp
    \/ ProcessExtraOutputsForImage
    \/ WriteExtraOutputs
    \/ BuildExtraOutputHDUs
    \/ NextFile

Spec == Init /\ [][Next]_vars

SpecLife == InitLife /\ [][Run]_vars

SpecHdu == InitHdu /\ [][Run]_vars

SpecWrite == InitWrite /\ [][Run]_vars

SpecDup == InitDup /\ [][Run]_vars

SpecOrder == InitOrder /\ [][Run]_vars

SpecRaise == InitRaise /\ [][Run]_vars

\* a run in which SetupExtraOutput is also called while a file is being built
RunSetup ==
    \/ Run
    \/ SetupExtraOutputAgain
    \/ SetupExtraOutputOther

SpecSetup == InitSetup /\ [][RunSetup]_vars

\* demo9 with at most MaxTasks files in all, nfiles for each mass, on a
\* machine of one to MaxCpu processors or of an unknown number; the script
\* does not use the extra output coordinator
InitPool ==
    /\ \E nfiles \in 1 .. MaxTasks, nmass \in 1 .. MaxTasks,
          ncpu \in {NoCpuCount} \cup 1 .. MaxCpu :
          /\ nfiles * nmass <= MaxTasks
          /\ PoolStart([nfiles |-> nfiles, nmass |-> nmass, ncpu |-> ncpu])
    /\ InitCoordinator(Registry(<<>>, <<>>),
                       Config(FALSE, ("psf" :> FileField), OneImage, 0, NoRetry,
                              FALSE, FALSE, FALSE, NoNproc),
                       {})
    /\ raising = {}

\* the steps of demo9 in which every build_file returns
NextPool ==
    \/ task_queue_put
    \/ Process_start
    \/ \E w \in DOMAIN workers : worker_get(w)
    \/ \E w \in DOMAIN workers : worker_build(w)
    \/ done_queue_get
    \/ put_STOP

SpecPool == InitPool /\ [][NextPool]_vars

\* the most processes a run starts
MaxWorkers == IF MaxCpu < nproc_of([nfiles |-> 1, nmass |-> 1, ncpu |-> NoCpuCount])
              THEN nproc_of([nfiles |-> 1, nmass |-> 1, ncpu |-> NoCpuCount])
              ELSE MaxCpu

\* The operating system gives every process that can take a step a turn:
\* the main process, and each worker process that is started.
PoolFairness ==
    /\ WF_vars(Main)
    /\ \A w \in 1 .. MaxWorkers : WF_vars(w \in DOMAIN workers /\ Worker(w))

SpecPoolFair == SpecPool /\ PoolFairness

\* the steps of demo9 in which one build_file call may raise
NextPoolFail ==
    \/ NextPool
    \/ \E w \in DOMAIN workers : build_file_raises(w)

\* every process that can take a step gets its turn, whether its
\* build_file call returns or raises
PoolFailFairness ==
    /\ WF_vars(Main)
    /\ \A w \in 1 .. MaxWorkers :
          WF_vars(w \in DOMAIN workers /\ (Worker(w) \/ build_file_raises(w)))

SpecPoolFail == InitPool /\ [][NextPoolFail]_vars /\ PoolFailFairness

\* ------------------------------------------------------------- properties
Registered == Range(RegKeys)

AllImagesDone == \A i \in Images : img[i] = "done"

\* the objects of the current file
FileObjs == FirstObj(0) .. FirstObj(config.nimages) - 1

\* the active kinds whose field has an hdu, and their configured numbers
HduKinds == {k \in Active : config.output[k].has_hdu}

Slot(k) == config.output[k].hdu

\* the configured hdu numbers are exactly first..first+n-1, each once
IsRun(first) ==
    /\ \A k1, k2 \in HduKinds : Slot(k1) = Slot(k2) => k1 = k2
    /\ {Slot(k) : k \in HduKinds} = first .. first + Cardinality(HduKinds) - 1

\* every kind that writes an hdu has a builder that overrides writeHdu
AllOverride == \A k \in HduKinds : RegBuilder(k) = "HduBuilder"

BuiltHdus == last.op = "BuildExtraOutputHDUs" /\ config.has_output

\* C1: a registered kind that is not a key of config['output'] has none of
\* its hooks invoked, in the current file or by the last operation.
RegistryFilteringExact ==
    \A k \in Registered :
        (~config.has_output \/ k \notin DOMAIN config.output) =>
            /\ calls[k] = NoCalls
            /\ k \notin Invoked(trace)

RegistryFilteringWitness ==
    /\ phase = "Done"
    /\ config.has_output
    /\ \E k \in Registered : k \notin DOMAIN config.output
    /\ \E k \in Active : calls[k].writeFile > 0 \/ calls[k].writeHdu > 0

\* C2: once the N images of the file are built, every active builder has had
\* setupImage N times and processImage once for every index of 0..N-1.
ImageHooksOncePerImage ==
    AllImagesDone =>
        \A k \in Active :
            /\ calls[k].setupImage = config.nimages
            /\ DOMAIN calls[k].processImage = 0 .. config.nimages - 1
            /\ \A i \in DOMAIN calls[k].processImage : calls[k].processImage[i] = 1

ImageHooksWitness ==
    /\ AllImagesDone
    /\ config.nimages >= 2
    /\ config.start_image_num > 0
    /\ Cardinality(Active) = 2

\* C3: every active builder has had processStamp exactly once for every
\* object whose stamp is complete and for no other object number.
StampOncePerObject ==
    \A k \in Active :
        /\ DOMAIN calls[k].processStamp = stamps
        /\ \A o \in stamps : calls[k].processStamp[o] = 1

\* an object is complete before the first object of the file
StampOutOfOrderWitness ==
    /\ Active # {}
    /\ stamps # {}
    /\ FirstObj(0) \notin stamps
    /\ config.start_obj_num > 0

\* C4: when the file is done, finalize was invoked exactly once for every
\* active builder.
FinalizeOncePerFile ==
    phase = "Done" => \A k \in Active : calls[k].finalize = 1

HduListInSlotOrder ==
    (BuiltHdus /\ IsRun(last.first) /\ AllOverride) =>
        /\ last.err = "none"
        /\ Len(last.ret) = Cardinality(HduKinds)
        /\ \A k \in HduKinds : last.ret[Slot(k) - last.first + 1] = Artifact(k)

\* C7: when the configured hdu numbers are not a gap-free run that starts
\* at first, the call ends in an error and returns no list.
HduGapIsError ==
    (BuiltHdus /\ ~IsRun(last.first)) => last.err # "none" /\ last.ret = <<>>

HduGapWitness ==
    /\ BuiltHdus
    /\ last.first = 1
    /\ {Slot(k) : k \in HduKinds} = {1, 3}
    /\ Cardinality(HduKinds) = 2
    /\ last.err = "ValueError"

\* C8: when two active kinds have the same hdu number, the call ends in an
\* error and neither finalize nor writeHdu of the later of the two was
\* invoked by it.
HduDuplicateIsError ==
    BuiltHdus =>
        \A k1, k2 \in HduKinds :
            (Slot(k1) = Slot(k2) /\ Pos(RegKeys, k1) < Pos(RegKeys, k2)) =>
                /\ last.err # "none"
                /\ last.ret = <<>>
                /\ \A i \in DOMAIN trace : trace[i].key # k2

HduDuplicateWitness ==
    /\ BuiltHdus
    /\ last.err # "none"
    /\ \E k1, k2 \in HduKinds :
          /\ Slot(k1) = Slot(k2)
          /\ Pos(RegKeys, k1) < Pos(RegKeys, k2)
          /\ \E i \in DOMAIN trace : trace[i] = Call(k1, "writeHdu", Slot(k1))

\* C9: for every first, a configuration whose hdu numbers are exactly
\* first..first+n-1 is accepted.
HduRunAccepted ==
    (BuiltHdus /\ IsRun(last.first) /\ AllOverride) => last.err = "none"

\* C10: a kind written by one WriteExtraOutputs call and resolved to the
\* same path by the next call is skipped by that call: no writeFile, no error.
Skipped(e) == e.outcome \in {"duplicate", "noclobber"} /\ e.tries = 0

DuplicateWriteSuppressed ==
    \A i \in 1 .. Len(write_log) - 1 :
        \A k \in DOMAIN write_log[i].log \cap DOMAIN write_log[i + 1].log :
            (/\ write_log[i].log[k].outcome = "written"
             /\ write_log[i + 1].log[k].path = write_log[i].log[k].path)
                => Skipped(write_log[i + 1].log[k])

DuplicateWriteWitness ==
    \E i \in 1 .. Len(write_log) - 1 :
        \E k \in DOMAIN write_log[i].log \cap DOMAIN write_log[i + 1].log :
            /\ write_log[i].log[k].outcome = "written"
            /\ write_log[i + 1].log[k].outcome = "duplicate"
            /\ write_log[i + 1].log[k].path = write_log[i].log[k].path
            /\ last.op = "WriteExtraOutputs"
            /\ last.err = "none"

\* the successful write of kind k by the j-th WriteExtraOutputs call
Wrote(k, j) ==
    k \in DOMAIN write_log[j].log /\ write_log[j].log[k].outcome = "written"

\* the calls before the j-th that wrote kind k, and the latest of a set
WroteBefore(k, j) == {i \in 1 .. j - 1 : Wrote(k, i)}

Latest(S) == CHOOSE i \in S : \A h \in S : h <= i

WriteStep == last'.op = "WriteExtraOutputs" /\ Len(write_log') = Len(write_log) + 1

NewLog == write_log'[Len(write_log')].log

\* the active kinds in the order the coordinator takes them
ActiveSeq == all_keys(config.output)

\* C12: with noclobber, a call of WriteExtraOutputs invokes writeFile for no
\* path that exists when it is called; the kind is skipped without an error
\* and the kind after it is taken.
NoClobberKeepsFiles ==
    [][(WriteStep /\ config.noclobber) =>
          /\ \A i \in DOMAIN trace' :
                trace'[i].hook = "writeFile" => trace'[i].arg \notin files
          /\ \A p \in DOMAIN ActiveSeq :
                LET k == ActiveSeq[p]
                IN (k \in DOMAIN NewLog /\ NewLog[k].path \in files) =>
                      /\ NewLog[k].outcome = "noclobber"
                      /\ NewLog[k].tries = 0
                      /\ \A i \in DOMAIN trace' : trace'[i].key # k
                      /\ p < Len(ActiveSeq) => ActiveSeq[p + 1] \in DOMAIN NewLog
                      /\ (\A k2 \in DOMAIN NewLog : NewLog[k2].outcome # "failed")
                            => last'.err = "none"]_vars

\* the first kind is skipped for its old file, the second is written
NoClobberWitness ==
    /\ last.op = "WriteExtraOutputs"
    /\ last.err = "none"
    /\ config.noclobber
    /\ Len(write_log) = 1
    /\ Len(ActiveSeq) = 2
    /\ write_log[1].log[ActiveSeq[1]].outcome = "noclobber"
    /\ write_log[1].log[ActiveSeq[1]].path \in OldFiles
    /\ write_log[1].log[ActiveSeq[2]].outcome = "written"

\* the attempts the configuration allows one write
Budget == IF config.retry_io = NoRetry THEN 1 ELSE config.retry_io + 1

\* the calls of writeFile for kind k by the last operation
WriteCalls(k) == {i \in DOMAIN trace : trace[i].key = k /\ trace[i].hook = "writeFile"}

Attempted(e) == e.outcome \in {"written", "failed"}

\* C13: a write gets retry_io+1 attempts (one without retry_io), all with
\* the same path: writeFile is invoked once more than it fails, at most
\* Budget times, and a write that succeeds within the budget is no error.
RetryBudget ==
    /\ \A j \in DOMAIN write_log : \A k \in DOMAIN write_log[j].log :
          LET e == write_log[j].log[k]
          IN Attempted(e) =>
                /\ e.tries = IF e.fails < Budget THEN e.fails + 1 ELSE Budget
                /\ (e.outcome = "written") = (e.fails < Budget)
    /\ (last.op = "WriteExtraOutputs" /\ config.has_output) =>
          LET log == write_log[Len(write_log)].log
          IN /\ \A k \in DOMAIN log :
                   /\ Cardinality(WriteCalls(k)) = log[k].tries
                   /\ \A i \in WriteCalls(k) : trace[i].arg = log[k].path
             /\ (\A k \in DOMAIN log : log[k].outcome # "failed") => last.err = "none"

\* retry_io tries fail and the last one allowed succeeds
RetryLastAttemptWitness ==
    /\ last.op = "WriteExtraOutputs"
    /\ last.err = "none"
    /\ config.retry_io >= 1
    /\ \E k \in DOMAIN write_log[Len(write_log)].log :
          LET e == write_log[Len(write_log)].log[k]
          IN /\ e.outcome = "written"
             /\ e.fails = config.retry_io
             /\ Cardinality(WriteCalls(k)) = config.retry_io + 1

\* C14: when all the allowed tries of a kind's writeFile fail, the call of
\* WriteExtraOutputs ends in that error, the file is aborted, and the call
\* has taken no kind that comes later in the iteration order.
WriteFailureRaised ==
    (last.op = "WriteExtraOutputs" /\ config.has_output) =>
        LET log == write_log[Len(write_log)].log
        IN \A p \in DOMAIN ActiveSeq :
              (ActiveSeq[p] \in DOMAIN log /\ log[ActiveSeq[p]].outcome = "failed") =>
                  /\ log[ActiveSeq[p]].tries = Budget
                  /\ last.err = "IOError"
                  /\ phase = "Aborted"
                  /\ \A q \in DOMAIN ActiveSeq :
                        q > p => /\ ActiveSeq[q] \notin DOMAIN log
                                 /\ \A i \in DOMAIN trace : trace[i].key # ActiveSeq[q]

\* both tries of the first kind fail; the second kind has a file_name too
WriteFailureWitness ==
    /\ last.op = "WriteExtraOutputs"
    /\ config.retry_io = 1
    /\ Len(ActiveSeq) = 2
    /\ WritesFile(config.output[ActiveSeq[2]])
    /\ ActiveSeq[1] \in DOMAIN write_log[Len(write_log)].log
    /\ write_log[Len(write_log)].log[ActiveSeq[1]].outcome = "failed"
    /\ Cardinality(WriteCalls(ActiveSeq[1])) = 2

\* the active kinds whose field has neither a file_name nor an hdu
ComputeOnly ==
    {k \in Active : ~config.output[k].has_file_name /\ ~config.output[k].has_hdu}

\* C15: when the file is done, a kind with neither file_name nor hdu has had
\* initialize, setupImage, processStamp, processImage and finalize invoked
\* and neither writeFile nor writeHdu, and it has no element in the hdu list.
ComputeOnlyEveryHook ==
    phase = "Done" =>
        \A k \in ComputeOnly :
            /\ calls[k].initialize >= 1
            /\ calls[k].setupImage >= 1
            /\ DOMAIN calls[k].processStamp # {}
            /\ DOMAIN calls[k].processImage # {}
            /\ calls[k].finalize >= 1
            /\ calls[k].writeFile = 0
            /\ calls[k].writeHdu = 0
            /\ \A i \in DOMAIN last.ret : last.ret[i] # Artifact(k)

JustSetUp == last.op = "SetupExtraOutput" /\ config.has_output

\* C16: when SetupExtraOutput has returned, initialize was invoked for every
\* active kind and its builder holds a data list of config['nimages'] entries
\* that are all None and an empty scratch dict.
SetupAllocatesEmpty ==
    JustSetUp =>
        \A k \in Active :
            /\ \E i \in DOMAIN trace : trace[i] = Call(k, "initialize", 0)
            /\ builders[k].bound
            /\ Len(builders[k].data) = config.nimages
            /\ \A i \in DOMAIN builders[k].data : builders[k].data[i] = NoneSlot
            /\ builders[k].scratch = EmptyMap

\* the set up of the second file, after the data of the first was filled
SetupSecondFileWitness ==
    /\ JustSetUp
    /\ phase = "FileSetup"
    /\ config.file_num = 1
    /\ config.nimages >= 2
    /\ Cardinality(Active) >= 2
    /\ Len(write_log) = 1

\* a step in which SetupExtraOutput is called with config
SetupStep == \E k \in Kinds : calls'[k].initialize = calls[k].initialize + 1

\* the work space containers the active builders hold
HeldIds(b) == {b[k].data_id : k \in Active} \cup {b[k].scratch_id : k \in Active}

\* C17, as stated: a call of SetupExtraOutput for a file whose kinds are set
\* up allocates nothing and leaves the data and scratch of the builders.
SetupOncePerFile ==
    [][(SetupStep /\ phase # "Unconfigured") =>
          /\ nalloc' = nalloc
          /\ \A k \in Active : builders'[k] = builders[k]]_vars

\* C17, amended: every call of SetupExtraOutput allocates a new data list
\* and a new scratch dict for every active kind and binds them to the
\* builder in place of the ones it held: all None, empty.
EverySetupAllocates ==
    [][SetupStep =>
          /\ nalloc' = nalloc + 2 * Cardinality(Active)
          /\ HeldIds(builders') = nalloc + 1 .. nalloc'
          /\ \A k \in Active :
                /\ \A i \in DOMAIN builders'[k].data : builders'[k].data[i] = NoneSlot
                /\ Len(builders'[k].data) = config.nimages
                /\ builders'[k].scratch = EmptyMap]_vars

\* the second call for a file finds stamps in scratch and leaves none
SetupAgainWitness ==
    /\ JustSetUp
    /\ phase = "ImagesInProgress"
    /\ stamps # {}
    /\ \A k \in Active :
          /\ calls[k].initialize = 2
          /\ DOMAIN calls[k].processStamp = stamps
          /\ builders[k].scratch = EmptyMap

\* the work space of the active builders is made by the manager
ManagerProxies == \A k \in Active : builders[k].shared

PlainContainers == \A k \in Active : ~builders[k].shared

\* C18: SetupExtraOutput makes data and scratch with the manager when the
\* config has no current_nproc and has an image nproc other than 1, and as a
\* plain list and dict in every other case.
ManagerExactlyWhenParallel ==
    JustSetUp =>
        IF ~config.current_nproc /\ config.nproc # NoNproc /\ config.nproc # 1
        THEN ManagerProxies /\ output_manager.present /\ output_manager.starts = 1
        ELSE PlainContainers /\ ~output_manager.present

ManagerWitness ==
    /\ JustSetUp
    /\ config.nproc = 2
    /\ ~config.current_nproc
    /\ Active # {}
    /\ ManagerProxies
    /\ config.file_num = 1

\* the hooks that hand the data of a kind to a file or an hdu
WriteHooks == {"writeFile", "writeHdu"}

\* C19: in a file, a builder that has had any other hook has had initialize;
\* one that has had finalize has had setupImage, processStamp and
\* processImage for all the images and objects of the file; and every call
\* of writeFile or writeHdu comes after a call of finalize for the same kind
\* in the same operation.
HooksInPhaseOrder ==
    /\ \A k \in Kinds :
          /\ calls[k] # NoCalls => calls[k].initialize >= 1
          /\ calls[k].finalize > 0 =>
                /\ AllImagesDone
                /\ calls[k].setupImage = config.nimages
                /\ DOMAIN calls[k].processStamp = FileObjs
                /\ DOMAIN calls[k].processImage = 0 .. config.nimages - 1
          /\ (calls[k].writeFile > 0 \/ calls[k].writeHdu > 0) => calls[k].finalize > 0
    /\ \A i \in DOMAIN trace :
          trace[i].hook \in WriteHooks =>
              \E j \in 1 .. i - 1 : trace[j] = Call(trace[i].key, "finalize", 0)

\* a file of two images or more with a written file and a written hdu
PhaseOrderWitness ==
    /\ phase = "Done"
    /\ config.nimages >= 2
    /\ \E k \in Active : calls[k].writeFile > 0
    /\ \E k \in Active : calls[k].writeHdu > 0
    /\ \E i \in DOMAIN trace : trace[i].hook \in WriteHooks

\* C20: the set up of another config while a file is being built leaves the
\* data and scratch that the builders of the file read.
WorkspaceOwnedByFile ==
    [][last'.op = "SetupExtraOutput(other)" =>
          \A k \in Active :
              /\ builders'[k].data = builders[k].data
              /\ builders'[k].scratch = builders[k].scratch]_vars

\* the calls of initialize by the last operation
InitializeCalls == {i \in DOMAIN trace : trace[i].hook = "initialize"}

\* C21: in a file that is set up, initialize was invoked once for every
\* active kind and for no other kind, and only SetupExtraOutput invokes it;
\* when the images are built, every active kind has had setupImage and
\* processImage once per image and processStamp once per object.
InitializeOncePerFile ==
    /\ \A k \in Kinds :
          calls[k].initialize = IF k \in Active /\ phase # "Unconfigured" THEN 1 ELSE 0
    /\ InitializeCalls # {} =>
          /\ last.op = "SetupExtraOutput"
          /\ \A k \in Active : Cardinality({i \in InitializeCalls : trace[i].key = k}) = 1
    /\ AllImagesDone =>
          \A k \in Active :
              /\ calls[k].setupImage = config.nimages
              /\ Cardinality(DOMAIN calls[k].processStamp) = SumSeq(config.nobj, config.nimages)
              /\ Cardinality(DOMAIN calls[k].processImage) = config.nimages

\* two active kinds, one file, three images of 2, 1 and 1 objects
InitializeScenarioWitness ==
    /\ AllImagesDone
    /\ config.file_num = 0
    /\ config.nobj = <<2, 1, 1>>
    /\ Cardinality(Active) = 2
    /\ \A k \in Active :
          /\ calls[k].initialize = 1
          /\ calls[k].setupImage = 3
          /\ Cardinality(DOMAIN calls[k].processStamp) = 4
          /\ DOMAIN calls[k].processImage = {0, 1, 2}

\* a step that is a call of RegisterExtraOutput
RegisterStep == nreg' = nreg + 1

\* reg[key] of a registry reg, and its keys
Lookup(reg, key) == reg[CHOOSE i \in DOMAIN reg : reg[i].key = key].builder

KeysOf(reg) == {reg[i].key : i \in DOMAIN reg}

\* C22: a call of RegisterExtraOutput ends without error; the registry then
\* maps the name to the builder of the call, every other name to what it
\* mapped to before, and a second call with the same name and builder would
\* leave it as it is.
RegisterLastWins ==
    [][RegisterStep =>
          /\ last'.err = "none"
          /\ LET key == last'.reg[1]
                 builder == last'.reg[2]
             IN
                /\ KeysOf(valid_extra_outputs') = KeysOf(valid_extra_outputs) \cup {key}
                /\ Lookup(valid_extra_outputs', key) = builder
                /\ \A k \in KeysOf(valid_extra_outputs) \ {key} :
                      Lookup(valid_extra_outputs', k) = Lookup(valid_extra_outputs, k)
                /\ RegisterInto(valid_extra_outputs', key, builder) = valid_extra_outputs'
          /\ Len(valid_extra_outputs') = Cardinality(KeysOf(valid_extra_outputs'))]_vars

\* two calls: a new name, and a registered name with another builder
RegisterTwiceWitness ==
    /\ last.op = "RegisterExtraOutput"
    /\ nreg = 2
    /\ KeysOf(valid_extra_outputs) = {"psf", "weight", "truth"}
    /\ Lookup(valid_extra_outputs, "psf") = "ExtraOutputBuilder"
    /\ Lookup(valid_extra_outputs, "weight") = "HduBuilder"

\* the keys of config['output'] that are not registered kinds
Unregistered ==
    IF config.has_output THEN DOMAIN config.output \ Registered ELSE {}

\* C23: a key of config['output'] that is not registered has no hook
\* invoked and no builder, is the cause of no error, and its hdu number
\* takes no part in the test of the hdu numbers.
UnregisteredIgnored ==
    Unregistered # {} =>
        /\ \A k \in Unregistered :
              /\ calls[k] = NoCalls
              /\ k \notin Invoked(trace)
              /\ k \notin extra_builder.keys
              /\ ~builders[k].bound
              /\ \A i \in DOMAIN last.ret : last.ret[i] # Artifact(k)
        /\ last.op \in {"SetupExtraOutput", "SetupExtraOutputsForImage",
                        "ProcessExtraOutputsForStamp", "ProcessExtraOutputsForImage"}
              => last.err = "none"
        /\ (BuiltHdus /\ last.first >= 1 /\ IsRun(last.first) /\ AllOverride) =>
              /\ last.err = "none"
              /\ Len(last.ret) = Cardinality(HduKinds)

\* truth is not registered and has hdu 1: with first = 2 and no other hdu
\* the call returns the empty list
UnregisteredHduWitness ==
    /\ BuiltHdus
    /\ last.err = "none"
    /\ last.first = 2
    /\ last.ret = <<>>
    /\ \E k \in Unregistered : config.output[k].has_hdu /\ config.output[k].hdu = 1
    /\ \E k \in Active : calls[k].processImage # EmptyMap

\* the operations of the coordinator that iterate the kinds
LoopOps == {"SetupExtraOutput", "SetupExtraOutputsForImage",
            "ProcessExtraOutputsForStamp", "ProcessExtraOutputsForImage",
            "WriteExtraOutputs", "BuildExtraOutputHDUs"}

\* C24: the hooks that an operation invokes come kind by kind in the order
\* of the registry, for each of the six operations; a set up or processing
\* operation that ends without error has invoked the hook of every active
\* kind, a writing operation hooks of active kinds only.
HooksInRegistryOrder ==
    last.op \in LoopOps =>
        /\ \A i, j \in DOMAIN trace :
              i < j => Pos(RegKeys, trace[i].key) <= Pos(RegKeys, trace[j].key)
        /\ Invoked(trace) \subseteq Active
        /\ (last.err = "none" /\ last.op \notin {"WriteExtraOutputs", "BuildExtraOutputHDUs"})
              => Invoked(trace) = Active

\* every operation has been seen with the registry that starts with truth
OrderWitness ==
    /\ phase = "Done"
    /\ last.op = "WriteExtraOutputs"
    /\ last.err = "none"
    /\ RegKeys[1] = "truth"
    /\ Len(last.ret) = 0
    /\ [i \in DOMAIN trace |-> trace[i].key]
          = <<"truth", "truth", "psf", "psf", "weight", "weight">>

\* the file name at the end of a path
BaseName(path) == path[Len(path)]

\* the log of the last call of WriteExtraOutputs
LastLog == write_log[Len(write_log)].log

\* C25: the path of a kind is its file_name joined (as os.path.join does) to
\* the dir of its field when it has one, else to the dir of config['output']
\* when it has one, else the file_name alone; writeFile gets this path, and
\* the noclobber test and the record of the last file are on this path.
PathResolution ==
    write_log # <<>> =>
        \A k \in DOMAIN LastLog :
            LET e == LastLog[k]
                name == BaseName(e.path)
            IN e.outcome # "nofile" =>
                  /\ e.path = IF name \in AbsNames THEN <<name>>
                               ELSE IF config.output[k].has_dir THEN <<KindDir, name>>
                               ELSE IF config.has_dir THEN <<OutputDir, name>>
                               ELSE <<name>>
                  /\ e.outcome = "noclobber" => e.path \in files
                  /\ e.outcome \in {"written", "duplicate"} =>
                        /\ k \in DOMAIN extra_last_file.map
                        /\ extra_last_file.map[k] = e.path
                  /\ e.outcome = "written" => e.path \in files
                  /\ last.op = "WriteExtraOutputs" =>
                        \A i \in WriteCalls(k) : trace[i].arg = e.path

\* psf has its own dir, weight takes the dir of config['output']
PathPrecedenceWitness ==
    /\ last.op = "WriteExtraOutputs"
    /\ last.err = "none"
    /\ config.has_dir
    /\ config.output["psf"].has_dir
    /\ DOMAIN LastLog = {"psf", "weight"}
    /\ LastLog["psf"].outcome = "written"
    /\ LastLog["psf"].path = <<KindDir, "a.fits">>
    /\ LastLog["weight"].outcome = "written"
    /\ LastLog["weight"].path = <<OutputDir, "a.fits">>

\* the kinds that write an hdu with the writeHdu of the base class
BaseHduKinds == {k \in HduKinds : RegBuilder(k) = "ExtraOutputBuilder"}

\* C26: with a kind that writes an hdu and does not override writeHdu, the
\* call of BuildExtraOutputHDUs ends in an error and returns no list; the
\* call of the base writeHdu is the last hook call of the operation.
BaseWriteHduFails ==
    (BuiltHdus /\ BaseHduKinds # {}) =>
        /\ last.err # "none"
        /\ last.ret = <<>>
        /\ \A i \in DOMAIN trace :
              (trace[i].hook = "writeHdu" /\ trace[i].key \in BaseHduKinds) =>
                  /\ i = Len(trace)
                  /\ last.err = "TypeError"

\* the hdu numbers are a run from first; the second kind has the base writeHdu
BaseWriteHduWitness ==
    /\ BuiltHdus
    /\ IsRun(last.first)
    /\ last.first = 1
    /\ Len(trace) = 4
    /\ trace[2].hook = "writeHdu"
    /\ trace[2].key \notin BaseHduKinds
    /\ trace[4].hook = "writeHdu"
    /\ trace[4].key \in BaseHduKinds
    /\ last.err = "TypeError"

\* what the work flow leaves in the data slot of image index k
ImageData(k) == {StampValue(o) : o \in ObjNums(k)}

\* C27: whatever the order of the stamps and images so far, the data slot
\* of every image that is processed holds the values of the objects of that
\* image, and the slot of every other image is None; so the data of a file
\* whose images are all processed is the same for every order.
DataOrderIndependent ==
    phase \in {"ImagesInProgress", "Writing", "Done"} =>
        \A k \in Active : \A i \in Images :
            builders[k].data[i + 1] = IF img[i] = "done" THEN ImageData(i) ELSE NoneSlot

\* the last image is processed before the first one is, after a stamp of
\* the first image
DataOutOfOrderWitness ==
    /\ phase = "ImagesInProgress"
    /\ config.nimages = 3
    /\ img[2] = "done"
    /\ img[0] = "setup"
    /\ img[1] = "new"
    /\ FirstObj(0) + 1 \in stamps
    /\ FirstObj(0) \notin stamps
    /\ \E k \in Active : builders[k].data = <<NoneSlot, NoneSlot, ImageData(2)>>

\* the images that are processed
DoneImages == {i \in Images : img[i] = "done"}

\* C28: with one ProcessExtraOutputsForImage call per image, every data
\* index is the target of at most one processImage call and every scratch
\* key of at most one processStamp call, for every kind, and the obj_nums
\* of two images have no object in common.
WritersDisjoint ==
    /\ \A k \in Active :
          /\ \A x \in DOMAIN calls[k].processImage : calls[k].processImage[x] <= 1
          /\ \A o \in DOMAIN calls[k].processStamp : calls[k].processStamp[o] <= 1
          /\ phase \in {"ImagesInProgress", "Writing", "Done"} =>
                /\ Cardinality(DOMAIN calls[k].processImage) = Cardinality(DoneImages)
                /\ DOMAIN builders[k].scratch = stamps
    /\ \A i, j \in Images : i # j => ObjNums(i) \cap ObjNums(j) = {}

\* the second file: all its stamps are complete, images 1 and 2 are
\* processed and image 0 is not
WritersWitness ==
    /\ config.nimages = 3
    /\ config.file_num = 1
    /\ DoneImages = {1, 2}
    /\ stamps = FileObjs
    /\ \E k \in Active : DOMAIN calls[k].processImage = {1, 2}

\* the number of entries of a queue that carry the file name f
InQueue(queue, f) == Cardinality({q \in DOMAIN queue : queue[q].info = f})

\* the workers that hold the task of file name f: taken and not yet built
Holding(f) ==
    {w \in DOMAIN workers : workers[w].state = "build" /\ workers[w].task.info = f}

\* the file names the main process has put on task_queue
Queued ==
    {full_name(i, j) : i \in 0 .. main.i - 1, j \in 0 .. pool_cfg.nfiles - 1}
    \cup {full_name(main.i, j) : j \in 0 .. main.j - 1}

\* C29: in every interleaving, each task put on task_queue is on the queue,
\* held by one worker or executed, by one build_file call of one worker;
\* each execution has one result entry, on done_queue or received, that
\* carries the info of the executed task and the name of its worker; and
\* when the main process leaves its loop it has received ntot results, one
\* for each queued file name.
TasksExactlyOnce ==
    /\ \A f \in Queued :
          /\ InQueue(task_queue, f) + Cardinality(Holding(f)) + Len(executed[f]) = 1
          /\ InQueue(done_queue, f) + received[f] = Len(executed[f])
    /\ \A f \in FullNames \ Queued :
          /\ InQueue(task_queue, f) + Cardinality(Holding(f)) + Len(executed[f]) = 0
          /\ InQueue(done_queue, f) + received[f] = 0
    /\ \A q \in DOMAIN done_queue :
          /\ done_queue[q].result.time_for = done_queue[q].info
          /\ executed[done_queue[q].info] = <<done_queue[q].proc>>
    /\ main.pc \in {"stop", "done"} =>
          /\ Queued = FullNames
          /\ main.got = ntot
          /\ Cardinality(FullNames) = ntot
          /\ \A f \in FullNames : received[f] = 1 /\ Len(executed[f]) = 1

\* the main process has left its loop over done_queue after two workers
\* shared more tasks than there are workers, one of them running two
PoolSharedWitness ==
    /\ main.pc = "done"
    /\ ntot > nproc_of(pool_cfg)
    /\ \E f, g, h \in FullNames :
          /\ f # g
          /\ executed[f] = executed[g]
          /\ executed[h] # executed[f]
          /\ received[f] = 1 /\ received[g] = 1 /\ received[h] = 1

\* the main process has received ntot results and put nproc sentinels, and
\* every worker has taken one sentinel and left its loop
PoolDone ==
    /\ main.pc = "done"
    /\ main.got = ntot
    /\ main.stops = nproc_of(pool_cfg)
    /\ task_queue = <<>>
    /\ \A w \in DOMAIN workers : workers[w].state = "exited" /\ workers[w].stops = 1

\* C30: when every build_file call returns and every process gets its turn,
\* the run reaches, and stays in, the state in which the main process has
\* received ntot results and put nproc sentinels and each of the nproc
\* workers has taken one sentinel and terminated; no sentinel is put before
\* the ntot results are received, and no worker takes a second sentinel.
PoolTerminates ==
    /\ <>[]PoolDone
    /\ [](main.stops > 0 => main.got = ntot)
    /\ [](\A w \in DOMAIN workers : workers[w].stops <= 1)

\* two workers have terminated after a run of more tasks than workers
PoolDoneWitness ==
    /\ PoolDone
    /\ nproc_of(pool_cfg) = 2
    /\ ntot = 4
    /\ pool_cfg.nmass = 2

\* a build_file call has raised in a worker
BuildFailed == \E w \in DOMAIN workers : workers[w].state = "died"

\* the run has stopped: the main process is past its loops and no worker
\* is running or blocked
RunStopped ==
    /\ main.pc = "done"
    /\ \A w \in DOMAIN workers : workers[w].state \in {"exited", "died"}

\* C31: after a build_file call fails in a worker, the run eventually
\* stops: the main process leaves its loop over done_queue and the other
\* workers terminate.
FailedRunStops == BuildFailed ~> RunStopped

\* the calls of the last operation to a hook that raises
RaisedCalls ==
    {i \in DOMAIN trace :
        trace[i].hook \in RaisingHooks /\ <<trace[i].key, trace[i].hook>> \in raising}

\* C32: a call of the last operation to a hook that raises is the last call
\* of the operation, the operation ends with that failure and the file is
\* aborted; no hook of a kind later in iteration order is called by it.
HookFailurePropagates ==
    /\ \A i \in RaisedCalls :
          /\ i = Len(trace)
          /\ last.err = "HookError"
          /\ phase = "Aborted"
          /\ \A k \in Active :
                Pos(RegKeys, k) > Pos(RegKeys, trace[i].key) => k \notin Invoked(trace)
    /\ last.err = "HookError" => RaisedCalls # {}

\* finalize of the second kind raises in WriteExtraOutputs after the file
\* of the first kind is written; the third kind is not reached
HookFailureWitness ==
    /\ last.op = "WriteExtraOutputs"
    /\ last.err = "HookError"
    /\ raising = {<<"weight", "finalize">>}
    /\ Invoked(trace) = {"psf", "weight"}
    /\ "truth" \in Active

\* the first object number of image i of the file, and the nobj[i] object
\* numbers from it on
RangeStart(i) == config.start_obj_num + SumSeq(config.nobj, i)

ObjRange(i) == RangeStart(i) .. RangeStart(i) + config.nobj[i + 1] - 1

\* the object numbers a builder was handed for image index i: with every
\* stamp of the image in scratch, the work flow leaves them in data[i]
ReceivedRange(k, i) == builders[k].data[i + 1]

\* C33: processImage gets index = image_num - start_image_num, the same for
\* every builder of the call and within 0..N-1, and the object range
\* [start_obj_num + sum(nobj[0..index-1]), that + nobj[index]), the same for
\* all builders of the image; the ranges of the images of a file do not
\* overlap and cover [start_obj_num, start_obj_num + sum(nobj)).
ObjectRangesPartition ==
    /\ last.op = "ProcessExtraOutputsForImage" /\ last.err = "none" =>
          \A t \in DOMAIN trace :
             /\ trace[t].arg \in 0 .. config.nimages - 1
             /\ trace[t].arg = trace[1].arg
             /\ img[trace[t].arg] = "done"
    /\ phase \in {"ImagesInProgress", "Writing", "Done"} =>
          \A i \in Images : img[i] = "done" =>
             \A k \in Active : ReceivedRange(k, i) = ObjRange(i)
    /\ \A i, j \in Images : i # j => ObjRange(i) \cap ObjRange(j) = {}
    /\ UNION {ObjRange(i) : i \in Images} =
          config.start_obj_num ..
             config.start_obj_num + SumSeq(config.nobj, config.nimages) - 1

\* the three images of the second file are processed; its objects are
\* numbered from start_obj_num on and the first image has two of them
ObjectRangesWitness ==
    /\ config.nimages = 3
    /\ config.nobj[1] = 2
    /\ config.file_num = 1
    /\ config.start_obj_num > 2
    /\ AllImagesDone
    /\ Cardinality(Active) = 2
    /\ last.op = "ProcessExtraOutputsForImage"
    /\ trace[1].arg = 0

\* config['extra_last_file'].get(key, None), with None written <<>>
LastFileOf(m, k) == IF k \in DOMAIN m THEN <<m[k]>> ELSE <<>>

\* the calls of WriteExtraOutputs so far that called writeFile for kind k
Tried(k) ==
    {j \in DOMAIN write_log :
        k \in DOMAIN write_log[j].log /\ write_log[j].log[k].outcome \in {"written", "failed"}}

\* C34: the record of the last file of a kind changes only in a call of
\* WriteExtraOutputs whose writeFile for the kind succeeds, and then to the
\* path written; it is as before when the kind is skipped by noclobber or as
\* a duplicate or when the write fails.  So when the last write tried for a
\* kind failed, a call that resolves the same path is not skipped as a
\* duplicate.
LastFileOnlyOnSuccess ==
    [][\A k \in Kinds :
          LET old == LastFileOf(extra_last_file.map, k)
              new == LastFileOf(extra_last_file'.map, k)
              reached == WriteStep /\ k \in DOMAIN NewLog
          IN /\ new # old => reached /\ NewLog[k].outcome = "written"
             /\ (reached /\ NewLog[k].outcome = "written") => new = <<NewLog[k].path>>
             /\ (reached /\ NewLog[k].outcome # "written") => new = old
             /\ (reached /\ Tried(k) # {}) =>
                   LET e == write_log[Latest(Tried(k))].log[k]
                   IN (e.outcome = "failed" /\ e.path = NewLog[k].path) =>
                         NewLog[k].outcome # "duplicate"]_vars

\* the write of a kind failed for the first file and is tried again, on
\* the same path, and succeeds for the second file
RetryAfterFailureWitness ==
    /\ Len(write_log) = 2
    /\ \E k \in Kinds :
          /\ k \in DOMAIN write_log[1].log /\ k \in DOMAIN write_log[2].log
          /\ write_log[1].log[k].outcome = "failed"
          /\ write_log[2].log[k].outcome = "written"
          /\ write_log[1].log[k].path = write_log[2].log[k].path
          /\ LastFileOf(extra_last_file.map, k) = <<write_log[2].log[k].path>>

\* the hook calls of a step to kind k
StepCalls(k, hook) ==
    {trace'[t].arg : t \in {u \in DOMAIN trace' :
                              trace'[u].key = k /\ trace'[u].hook = hook}}

\* C35: in a step that is not a set up, the data list of every active kind
\* keeps its config['nimages'] entries, a data entry changes only in a step
\* that calls processImage of the kind with that index and a scratch entry
\* only in a step that calls processStamp of the kind with that object
\* number: the coordinator writes none itself.  No two containers of the
\* active kinds of a file that is set up are the same one.
CoordinatorLeavesWorkspace ==
    [][/\ (phase # "Unconfigured" /\ phase' # "Unconfigured"
              /\ last'.op \notin {"SetupExtraOutput", "SetupExtraOutput(other)"}) =>
             \A k \in Active :
                /\ Len(builders'[k].data) = config.nimages
                /\ Len(builders[k].data) = config.nimages
                /\ builders'[k].data_id = builders[k].data_id
                /\ builders'[k].scratch_id = builders[k].scratch_id
                /\ \A i \in 1 .. config.nimages :
                      builders'[k].data[i] # builders[k].data[i] =>
                         i - 1 \in StepCalls(k, "processImage")
                /\ \A o \in DOMAIN builders[k].scratch \cup DOMAIN builders'[k].scratch :
                      (\/ o \notin DOMAIN builders[k].scratch
                       \/ o \notin DOMAIN builders'[k].scratch
                       \/ builders'[k].scratch[o] # builders[k].scratch[o]) =>
                         o \in StepCalls(k, "processStamp")
       /\ phase' \notin {"Unconfigured", "Aborted"} =>
             /\ \A k1, k2 \in Active : k1 # k2 =>
                   {builders'[k1].data_id, builders'[k1].scratch_id}
                      \cap {builders'[k2].data_id, builders'[k2].scratch_id} = {}
             /\ \A k \in Active : builders'[k].data_id # builders'[k].scratch_id]_vars

\* the second file of three images: two kinds hold their own containers,
\* the first image is processed and a stamp of another image is in scratch
WorkspaceWitness ==
    /\ config.file_num = 1
    /\ config.nimages = 3
    /\ Cardinality(Active) = 2
    /\ phase = "ImagesInProgress"
    /\ img[0] = "done" /\ img[2] = "setup" /\ img[1] = "new"
    /\ FirstObj(2) \in stamps
    /\ \A k \in Active :
          /\ builders[k].data[1] # NoneSlot
          /\ builders[k].data[3] = NoneSlot
          /\ FirstObj(2) \in DOMAIN builders[k].scratch

\* the config selects the manager: no current_nproc, an image nproc, not 1
SelectsManager ==
    ~config.current_nproc /\ config.nproc # NoNproc /\ config.nproc # 1

\* C36: over the SetupExtraOutput calls of a config the manager is made and
\* started at most once, by a call that selects the manager while the
\* config has none, and is kept from then on: later calls use it for their
\* work space; a config that selects plain containers never has a manager.
ManagerStartedOnce ==
    [][/\ output_manager'.starts <= 1
       /\ output_manager'.present <=> output_manager'.starts = 1
       /\ output_manager' # output_manager =>
             /\ last'.op = "SetupExtraOutput"
             /\ config.has_output /\ SelectsManager
             /\ ~output_manager.present /\ output_manager'.present
       /\ (last'.op = "SetupExtraOutput" /\ config.has_output /\ SelectsManager) =>
             /\ output_manager'.present
             /\ \A k \in Active : builders'[k].shared
       /\ ~SelectsManager => ~output_manager'.present]_vars

\* the second file of a config that selects the manager is set up and its
\* image is started: the manager of the first file is the one in use
ManagerReusedWitness ==
    /\ config.file_num = 1
    /\ phase = "ImagesInProgress"
    /\ SelectsManager
    /\ output_manager.starts = 1
    /\ Active # {}
    /\ \A k \in Active : builders[k].shared /\ calls[k].initialize = 1

\* the tasks that are not finished: on the queue, or taken and not built
Unfinished ==
    {f \in FullNames : InQueue(task_queue, f) + Cardinality(Holding(f)) > 0
                       \/ Len(executed[f]) = 0}

\* C37: a sentinel is on the queue or taken only when the main process has
\* received all ntot results; so a worker that has terminated leaves no
\* task unstarted or unfinished, and no sentinel is ahead of a task on the
\* queue.
SentinelsAfterResults ==
    /\ (main.stops > 0 \/ \E q \in DOMAIN task_queue : task_queue[q].stop) =>
          /\ main.got = ntot
          /\ main.pc \in {"stop", "done"}
          /\ done_queue = <<>>
    /\ (\E w \in DOMAIN workers : workers[w].state = "exited") =>
          /\ Unfinished = {}
          /\ \A v \in DOMAIN workers : workers[v].state \in {"get", "exited"}
    /\ \A p, q \in DOMAIN task_queue :
          (p < q /\ task_queue[p].stop) => task_queue[q].stop
    /\ \A w \in DOMAIN workers :
          workers[w].stops = IF workers[w].state = "exited" THEN 1 ELSE 0

\* one of two workers has taken its sentinel while the other still waits
\* for the second one, after a run of more tasks than workers
SentinelOrderWitness ==
    /\ ntot > nproc_of(pool_cfg)
    /\ main.stops = 1
    /\ main.pc = "stop"
    /\ task_queue = <<>>
    /\ \E w, v \in DOMAIN workers :
          workers[w].state = "exited" /\ workers[v].state = "get"

\* the number of a file in queueing order, from 0, and the seeds
\* random_seed + n*(nobj+1) .. that + nobj of file number n
FileNumber(f) == (f[2] - 1) * pool_cfg.nfiles + (f[3] - 1)

SeedsOfFile(n) == random_seed + n * (nobj + 1) .. random_seed + n * (nobj + 1) + nobj

\* the tasks that are on the queue or held by a worker
PendingTasks ==
    {task_queue[q] : q \in {p \in DOMAIN task_queue : ~task_queue[p].stop}}
    \cup {workers[w].task : w \in {v \in DOMAIN workers : workers[v].state = "build"}}

\* C38: the task of file number n in queueing order carries the seed
\* random_seed + n*(nobj+1), and its build_file call uses the seeds from
\* that seed to that seed + nobj and no other; the seeds of two files of
\* the run have none in common.
SeedsPartitioned ==
    /\ \A t \in PendingTasks :
          t.args.seed = random_seed + FileNumber(t.info) * (nobj + 1)
    /\ \A q \in DOMAIN done_queue :
          done_queue[q].result.seeds = SeedsOfFile(FileNumber(done_queue[q].info))
    /\ \A t \in PendingTasks : \A q \in DOMAIN done_queue :
          build_file(t.args).seeds \cap done_queue[q].result.seeds = {}
    /\ \A t, u \in PendingTasks :
          t.info # u.info => build_file(t.args).seeds \cap build_file(u.args).seeds = {}
    /\ \A p, q \in DOMAIN done_queue :
          p # q => done_queue[p].result.seeds \cap done_queue[q].result.seeds = {}

\* the results of the two files of the first mass are on done_queue while
\* the two files of the second mass are being built
SeedsWitness ==
    /\ ntot = 4
    /\ pool_cfg.nmass = 2
    /\ Len(done_queue) = 2
    /\ {done_queue[q].info : q \in DOMAIN done_queue} = {full_name(0, 0), full_name(0, 1)}
    /\ Cardinality(PendingTasks) = 2
    /\ task_queue = <<>>

\* C39: with no 'output' in config no hook is invoked by any operation, no
\* builder is bound or stored and no work space, manager or record of
\* written files is made; BuildExtraOutputHDUs returns the empty list, and
\* it and WriteExtraOutputs have set config['index_key'] to 'file_num'.
NoOutputNoEffect ==
    ~config.has_output =>
        /\ \A k \in Kinds : calls[k] = NoCalls /\ ~builders[k].bound
        /\ trace = <<>>
        /\ ~extra_builder.present /\ extra_builder.keys = {}
        /\ ~output_manager.present /\ output_manager.starts = 0
        /\ ~extra_last_file.present
        /\ nalloc = 0 /\ files = {} /\ write_log = <<>>
        /\ last.err = "none"
        /\ last.op = "BuildExtraOutputHDUs" => last.ret = <<>>
        /\ last.op \in {"WriteExtraOutputs", "BuildExtraOutputHDUs"} =>
              index_key = "file_num"
        /\ (did.write \/ did.hdus) => index_key = "file_num"
        /\ (index_key = "" /\ config.file_num = 0) => ~did.write /\ ~did.hdus

\* a file of a config without an output block, whose image nproc would
\* select the manager, is done; BuildExtraOutputHDUs ran last
NoOutputWitness ==
    /\ ~config.has_output
    /\ phase = "Done"
    /\ last.op = "BuildExtraOutputHDUs"
    /\ last.first = 1
    /\ config.nproc = 2 /\ ~config.current_nproc
    /\ index_key = "file_num"
    /\ valid_extra_outputs # <<>>
    /\ config.file_num = 0

====
